---- MODULE Spec2Model ----
(***************************************************************************)
(* Eco-Forensics backend: the /dossier orchestrator (main_api.py) with its *)
(* collaborators, and the correlation engine (correlation_engine.py).      *)
(*                                                                         *)
(* Numbers.  Python floats are modelled in fixed point:                    *)
(*   scores in [0,1]          units of 1/SCALE       (1e-4)                *)
(*   NDVI, NBR, burn index,                                                *)
(*   polarity, confidence     units of 1/MILLI       (1e-3)                *)
(*   link weights             units of 1e-6  (score * weight percent)      *)
(*   total_weight             units of 1e-3  (round(., 3))                 *)
(*   confidence score         units of 0.1   (round(., 1))                 *)
(*   latitudes of nodes and alerts   units of 1e-5 degree, all on one      *)
(*                            meridian, where the haversine distance is    *)
(*                            R * dlat exactly                             *)
(*   timestamps               hours                                        *)
(*   AOI coordinates          units of 0.01 degree                         *)
(* An Optional value is a sequence of length at most one: None is << >>.   *)
(***************************************************************************)
EXTENDS Integers, Sequences, FiniteSets, TLC

None == << >>
Some(x) == << x >>
IsNone(o) == o = << >>
Val(o) == o[1]

SCALE == 100 * 100
MILLI == 10 * 100

Abs(x) == IF x < 0 THEN -x ELSE x
Min(a, b) == IF a <= b THEN a ELSE b
Max(a, b) == IF a >= b THEN a ELSE b

\* Python round(): to the nearest multiple of d, ties to even (d > 0).
RoundHalfEven(n, d) ==
    LET q == n \div d
        r == n % d
    IN  IF 2 * r < d THEN q
        ELSE IF 2 * r > d THEN q + 1
        ELSE IF q % 2 = 0 THEN q ELSE q + 1

(***************************************************************************)
(* correlation_engine.py: parameters                                       *)
(***************************************************************************)
MAX_PROXIMITY_DISTANCE_M == 5000
TEMPORAL_WINDOW_DAYS == 14
\* 0.3, in units of 1/MILLI
BURN_INDEX_THRESHOLD == 300

\* WEIGHTS, in percent
WEIGHTS ==
    [ spatial_proximity |-> 25, temporal_correlation |-> 20, sentinel_ndvi |-> 15,
      sentinel_nbr |-> 10, sentinel_burn |-> 10, alert_density |-> 10,
      sentiment_negative |-> 10 ]

(***************************************************************************)
(* utils.haversine_distance for two points of equal longitude, in units of *)
(* 1e-5 m: R * radians(dlat) = 111194.93 m per degree.                     *)
(***************************************************************************)
haversine_distance(lat1, lat2) == Abs(lat1 - lat2) * 111195

\* round(distance, 1), in decimetres
DistanceDm(d) == RoundHalfEven(d, 100 * 100)

(***************************************************************************)
(* calculate_spatial_proximity_score                                       *)
(***************************************************************************)
\* The curve without the min(1.0, .) of its last branch.
MutSpatialCurveNoCap(close_count) ==
    IF close_count = 0 THEN 0
    ELSE IF close_count < 5 THEN close_count * 1500
    ELSE IF close_count < 10 THEN 6000 + (close_count - 5) * 500
    ELSE 8500 + (close_count - 10) * 100

\* The piecewise curve of the close-pair count (lines 112-120).
SpatialCurve(close_count) ==
    IF close_count = 0 THEN 0
    ELSE IF close_count < 5 THEN close_count * 1500
    ELSE IF close_count < 10 THEN 6000 + (close_count - 5) * 500
    ELSE Min(SCALE, 8500 + (close_count - 10) * 100)

\* The detail entries one node contributes, in alert order (lines 90-110).
RECURSIVE NodeProximity(_, _, _)
NodeProximity(node, alerts, max_distance) ==
    IF alerts = << >> THEN << >>
    ELSE
        LET alert == Head(alerts)
            distance == haversine_distance(node.latitude, alert.latitude)
            rest == NodeProximity(node, Tail(alerts), max_distance)
        IN  IF distance <= max_distance * 100000
            THEN << [ infrastructure |-> IF IsNone(node.name) THEN Some("OSM") ELSE node.name,
                      osm_id |-> node.osm_id,
                      distance_m |-> DistanceDm(distance),
                      alert_type |-> alert.kind ] >> \o rest
            ELSE rest

RECURSIVE ProximityDetails(_, _, _)
ProximityDetails(infrastructure, alerts, max_distance) ==
    IF infrastructure = << >> THEN << >>
    ELSE NodeProximity(Head(infrastructure), alerts, max_distance)
         \o ProximityDetails(Tail(infrastructure), alerts, max_distance)

\* The loop over the nodes left after its first node.
MutSpatialFirstNodeOnly(infrastructure, alerts, max_distance) ==
    IF infrastructure = << >> \/ alerts = << >>
    THEN [ score |-> 0, details |-> << >> ]
    ELSE
        LET proximity_details == NodeProximity(Head(infrastructure), alerts, max_distance)
        IN  [ score |-> SpatialCurve(Len(proximity_details)),
              details |-> proximity_details ]

calculate_spatial_proximity_score(infrastructure, alerts, max_distance) ==
    IF infrastructure = << >> \/ alerts = << >>
    THEN [ score |-> 0, details |-> << >> ]
    ELSE
        LET proximity_details == ProximityDetails(infrastructure, alerts, max_distance)
        IN  [ score |-> SpatialCurve(Len(proximity_details)),
              details |-> proximity_details ]

(***************************************************************************)
(* calculate_temporal_correlation_score                                    *)
(***************************************************************************)
\* Whole days rounded towards zero.
MutTimedeltaTruncated(a, b) == IF a >= b THEN (a - b) \div 24 ELSE -((b - a) \div 24)

\* timedelta.days of (a - b): whole days, rounded towards minus infinity.
TimedeltaDays(a, b) == (a - b) \div 24

\* round(1.0 - time_diff / window_days, 2), in hundredths
CorrelationStrength(time_diff, window_days) ==
    RoundHalfEven((window_days - time_diff) * 100, window_days)

RECURSIVE FireCorrelations(_, _, _)
FireCorrelations(fire, alerts, window_days) ==
    IF alerts = << >> THEN << >>
    ELSE
        LET alert == Head(alerts)
            time_diff == Abs(TimedeltaDays(fire.t, alert.t))
            rest == FireCorrelations(fire, Tail(alerts), window_days)
        IN  IF time_diff <= window_days
            THEN << [ fire_date |-> fire.t, alert_date |-> alert.t,
                      days_apart |-> time_diff,
                      correlation_strength |-> CorrelationStrength(time_diff, window_days) ] >>
                 \o rest
            ELSE rest

RECURSIVE Correlations(_, _, _)
Correlations(fires, alerts, window_days) ==
    IF fires = << >> THEN << >>
    ELSE FireCorrelations(Head(fires), alerts, window_days)
         \o Correlations(Tail(fires), alerts, window_days)

RECURSIVE SumStrength(_)
SumStrength(cs) ==
    IF cs = << >> THEN 0 ELSE Head(cs).correlation_strength + SumStrength(Tail(cs))

calculate_temporal_correlation_score(fires, deforestation_alerts, window_days) ==
    IF fires = << >> \/ deforestation_alerts = << >>
    THEN [ score |-> 0, details |-> << >> ]
    ELSE
        LET correlations == Correlations(fires, deforestation_alerts, window_days)
        IN  IF correlations = << >>
            THEN [ score |-> 0, details |-> << >> ]
            ELSE
                LET avg_strength == (SumStrength(correlations) * 100) \div Len(correlations)
                    count_bonus == Min(3000, Len(correlations) * 500)
                IN  [ score |-> Min(SCALE, avg_strength + count_bonus),
                      details |-> correlations ]

(***************************************************************************)
(* calculate_sentinel_scores                                               *)
(***************************************************************************)
\* min(1.0, ndvi_score)  (line 206)
NdviCap(ndvi_score) == Min(SCALE, ndvi_score)

NdviScore(ndvi) ==
    IF ndvi < 200 THEN [ score |-> NdviCap(8000 + (200 - ndvi) * 5), explanation |-> "very_low_ndvi" ]
    ELSE IF ndvi < 400 THEN [ score |-> NdviCap(4000 + (400 - ndvi) * 10), explanation |-> "low_ndvi" ]
    ELSE [ score |-> NdviCap(Max(0, 4000 - (ndvi - 400) * 5)), explanation |-> "vegetation_present" ]

NbrScore(nbr) ==
    IF nbr < -100 THEN [ score |-> Min(SCALE, 6000 + Abs(nbr) * 8), explanation |-> "negative_nbr" ]
    ELSE IF nbr < 100 THEN [ score |-> Min(SCALE, 3000), explanation |-> "low_nbr" ]
    ELSE [ score |-> 0, explanation |-> "healthy_nbr" ]

BurnScore(burn_index) ==
    IF burn_index > BURN_INDEX_THRESHOLD
    THEN [ score |-> Min(SCALE, burn_index * 15), explanation |-> "high_burn_index" ]
    ELSE IF burn_index > 150
    THEN [ score |-> burn_index * 20, explanation |-> "elevated_burn_index" ]
    ELSE [ score |-> 0, explanation |-> "low_burn_index" ]

calculate_sentinel_scores(sentinel) ==
    IF IsNone(sentinel)
    THEN [ ndvi |-> [ score |-> 0, explanation |-> "No Sentinel data available" ],
           nbr  |-> [ score |-> 0, explanation |-> "No Sentinel data available" ],
           burn |-> [ score |-> 0, explanation |-> "No Sentinel data available" ] ]
    ELSE
        LET s == Val(sentinel)
        IN  [ ndvi |-> IF ~IsNone(s.ndvi) THEN NdviScore(Val(s.ndvi))
                       ELSE [ score |-> 0, explanation |-> "NDVI data not available" ],
              nbr  |-> IF ~IsNone(s.nbr) THEN NbrScore(Val(s.nbr))
                       ELSE [ score |-> 0, explanation |-> "NBR data not available" ],
              burn |-> IF ~IsNone(s.burn_index) THEN BurnScore(Val(s.burn_index))
                       ELSE [ score |-> 0, explanation |-> "Burn index not available" ] ]

(***************************************************************************)
(* calculate_alert_density_score                                           *)
(***************************************************************************)
\* abs(cos_deg((min_lat + max_lat) / 2)) in units of 1/MILLI, by Bhaskara's
\* rational approximation of the cosine; lat_sum = min_lat + max_lat in
\* units of 0.01 degree, so the mean latitude is lat_sum / 200 degrees.
AbsCosMean(lat_sum) ==
    LET x2 == (lat_sum * lat_sum) \div 40000
    IN  Abs(((32400 - 4 * x2) * MILLI) \div (32400 + x2))

\* width_km * height_km in units of 0.01 km^2 (lines 261-265):
\* dd * 1e-4 sq degree * 111 * 111 * cos = dd * 12321 * c / 100000, staged so
\* that no intermediate value leaves 32 bits.
AreaCentiSqKm(bbox) ==
    LET dd == (bbox.max_lon - bbox.min_lon) * (bbox.max_lat - bbox.min_lat)
        c == AbsCosMean(bbox.min_lat + bbox.max_lat)
    IN  IF Abs(dd) < 160 THEN (dd * 12321 * c) \div 100000
        ELSE IF Abs(dd) < 170000 THEN ((((dd * 12321) \div MILLI) * c) \div 100)
        ELSE IF Abs(dd) < 17000000 THEN (((dd \div 100) * 12321) \div MILLI) * c
        ELSE (((dd \div 10000) * 12321) \div 10) * c

\* min(1.0, score)  (line 286)
DensityCap(score) == Min(SCALE, score)

\* The threshold curve over the density per 100 sq km, in units of 1/MILLI.
DensityCurve(density) ==
    IF density > 50000 THEN [ score |-> DensityCap(SCALE), explanation |-> "very_high_density" ]
    ELSE IF density > 20000
    THEN [ score |-> DensityCap(7000 + (density - 20000) \div 10), explanation |-> "high_density" ]
    ELSE IF density > 5000
    THEN [ score |-> DensityCap(3000 + ((density - 5000) * 27) \div 100),
           explanation |-> "moderate_density" ]
    ELSE [ score |-> DensityCap((density * 6) \div 10), explanation |-> "low_density" ]

calculate_alert_density_score(glad_alerts, radd_alerts, fires, bbox) ==
    LET total_alerts == Len(glad_alerts) + Len(radd_alerts) + Len(fires)
        area == AreaCentiSqKm(bbox)
    IN  IF total_alerts = 0
        THEN [ score |-> 0, explanation |-> "No alerts detected in region" ]
        ELSE IF area <= 0
        THEN [ score |-> 0, explanation |-> "Invalid area" ]
        ELSE DensityCurve((total_alerts * 10000000) \div area)

(***************************************************************************)
(* calculate_sentiment_score                                               *)
(***************************************************************************)
calculate_sentiment_score(sentiment) ==
    IF IsNone(sentiment)
    THEN [ score |-> 0, explanation |-> "No sentiment data available" ]
    ELSE
        LET s == Val(sentiment)
            fs == s.final_score
            base == IF fs < -300 THEN [ score |-> 8000 + Abs(fs + 300) * 3,
                                         explanation |-> "strongly_negative" ]
                    ELSE IF fs < 0 THEN [ score |-> 4000 + Abs(fs) * 13,
                                          explanation |-> "negative" ]
                    ELSE IF fs < 200 THEN [ score |-> 2000, explanation |-> "neutral" ]
                    ELSE [ score |-> 0, explanation |-> "positive" ]
        IN  [ score |-> Min(SCALE, (base.score * s.confidence) \div MILLI),
              explanation |-> base.explanation ]

(***************************************************************************)
(* build_evidence_chain                                                    *)
(***************************************************************************)
\* min(spatial_details, key=distance_m): the first entry of least distance
RECURSIVE Closest(_)
Closest(details) ==
    IF Len(details) = 1 THEN Head(details)
    ELSE LET c == Closest(Tail(details))
         IN  IF Head(details).distance_m <= c.distance_m THEN Head(details) ELSE c

RECURSIVE SumDaysApart(_)
SumDaysApart(ts) == IF ts = << >> THEN 0 ELSE Head(ts).days_apart + SumDaysApart(Tail(ts))

RECURSIVE SumWeights(_)
SumWeights(links) == IF links = << >> THEN 0 ELSE Head(links).weight + SumWeights(Tail(links))

Link(type, score, weight_pct, description, support) ==
    [ evidence_type |-> type, weight |-> score * weight_pct,
      description |-> description, supporting_data |-> support ]

\* A link appended whatever the score.
MutLinkAlways(type, score, weight_pct, description, support) ==
    << Link(type, score, weight_pct, description, support) >>

\* One link for a category whose score is positive (lines 345-414).
LinkIf(type, score, weight_pct, description, support) ==
    IF score > 0 THEN << Link(type, score, weight_pct, description, support) >> ELSE << >>

\* The phrases of the summary (lines 420-428); none means "Limited evidence".
SummaryParts(spatial_score, temporal_score, ndvi_score, sentiment_score) ==
    (IF spatial_score > SCALE \div 2 THEN << "strong spatial correlation with damage sites" >> ELSE << >>)
    \o (IF temporal_score > SCALE \div 2 THEN << "temporal pattern of fires preceding deforestation" >> ELSE << >>)
    \o (IF ndvi_score > SCALE \div 2 THEN << "satellite imagery confirms vegetation loss" >> ELSE << >>)
    \o (IF sentiment_score > SCALE \div 2 THEN << "negative media coverage" >> ELSE << >>)

build_evidence_chain(suspect, spatial_score, spatial_details, temporal_score, temporal_details, sentinel_scores, density, sentiment) ==
    LET links ==
            LinkIf("spatial_proximity", spatial_score, WEIGHTS.spatial_proximity, "within_max_distance",
                   << Len(spatial_details),
                      IF spatial_details = << >> THEN None
                      ELSE Some(Closest(spatial_details).distance_m) >>)
            \o LinkIf("temporal_correlation", temporal_score, WEIGHTS.temporal_correlation,
                      "fires_correlated",
                      << Len(temporal_details),
                         IF temporal_details = << >> THEN None
                         ELSE Some((SumDaysApart(temporal_details) * 100) \div Len(temporal_details)) >>)
            \o LinkIf("sentinel_ndvi", sentinel_scores.ndvi.score, WEIGHTS.sentinel_ndvi,
                      sentinel_scores.ndvi.explanation, << sentinel_scores.ndvi.score >>)
            \o LinkIf("sentinel_nbr", sentinel_scores.nbr.score, WEIGHTS.sentinel_nbr,
                      sentinel_scores.nbr.explanation, << sentinel_scores.nbr.score >>)
            \o LinkIf("sentinel_burn", sentinel_scores.burn.score, WEIGHTS.sentinel_burn,
                      sentinel_scores.burn.explanation, << sentinel_scores.burn.score >>)
            \o LinkIf("alert_density", density.score, WEIGHTS.alert_density,
                      density.explanation, << density.score >>)
            \o LinkIf("sentiment_negative", sentiment.score, WEIGHTS.sentiment_negative,
                      sentiment.explanation, << sentiment.score >>)
    IN  [ suspect |-> suspect,
          links |-> links,
          total_weight |-> RoundHalfEven(SumWeights(links), MILLI),
          summary |-> [ name |-> suspect.name,
                        parts |-> SummaryParts(spatial_score, temporal_score,
                                               sentinel_scores.ndvi.score, sentiment.score) ] ]

(***************************************************************************)
(* correlate_events                                                        *)
(***************************************************************************)
\* Python truthiness of an Optional[float]: None and 0.0 are false.
TruthyFloat(o) == ~IsNone(o) /\ Val(o) # 0

\* suspect_infra matched on the node name alone.
MutOwnByNameOnly(infrastructure, suspect) ==
    SelectSeq(infrastructure, LAMBDA n : n.name = Some(suspect.name))

\* The nodes whose name, operator tag or company tag equals the suspect's
\* name (lines 500-503).
RECURSIVE SuspectInfra(_, _)
SuspectInfra(infrastructure, suspect) ==
    IF infrastructure = << >> THEN << >>
    ELSE
        LET n == Head(infrastructure)
            rest == SuspectInfra(Tail(infrastructure), suspect)
        IN  IF n.name = Some(suspect.name) \/ n.operator = Some(suspect.name)
               \/ n.company = Some(suspect.name)
            THEN << n >> \o rest
            ELSE rest

\* list.sort(key=total_weight, reverse=True): descending and stable, by
\* insertion after every chain of greater or equal weight.
RECURSIVE InsertDesc(_, _)
InsertDesc(sorted, chain) ==
    IF sorted = << >> THEN << chain >>
    ELSE IF Head(sorted).total_weight >= chain.total_weight
    THEN << Head(sorted) >> \o InsertDesc(Tail(sorted), chain)
    ELSE << chain >> \o sorted

RECURSIVE InsertDescBefore(_, _)
InsertDescBefore(sorted, chain) ==
    IF sorted = << >> THEN << chain >>
    ELSE IF Head(sorted).total_weight > chain.total_weight
    THEN << Head(sorted) >> \o InsertDescBefore(Tail(sorted), chain)
    ELSE << chain >> \o sorted

RECURSIVE SortFrom(_, _)
SortFrom(sorted, chains) ==
    IF chains = << >> THEN sorted
    ELSE SortFrom(InsertDesc(sorted, Head(chains)), Tail(chains))

RECURSIVE SortFromBefore(_, _)
SortFromBefore(sorted, chains) ==
    IF chains = << >> THEN sorted
    ELSE SortFromBefore(InsertDescBefore(sorted, Head(chains)), Tail(chains))

\* sorted ascending and then reversed: equal weights change places
MutSortReversesTies(evidence_chains) == SortFromBefore(<< >>, evidence_chains)

\* evidence_chains.sort(key=lambda x: x.total_weight, reverse=True)  (line 530)
SortChains(evidence_chains) == SortFrom(<< >>, evidence_chains)

\* The presence bonuses (lines 538-555), in points.
PresenceBonus(a) ==
    (IF a.glad_alerts # << >> \/ a.radd_alerts # << >> THEN 15 ELSE 0)
    + (IF a.fires # << >> THEN 10 ELSE 0)
    + (IF ~IsNone(a.sentinel)
          /\ (TruthyFloat(Val(a.sentinel).ndvi) \/ TruthyFloat(Val(a.sentinel).nbr))
       THEN 15 ELSE 0)
    + (IF ~IsNone(a.hansen) /\ Val(a.hansen).total_loss_ha > 0 THEN 10 ELSE 0)
    + (IF a.infrastructure # << >> THEN 10 ELSE 0)
    + (IF ~IsNone(a.sentiment) THEN 5 ELSE 0)

\* base_confidence returned without the min(100, .)
MutConfidenceNoCap(base_confidence) == base_confidence

\* min(100, base_confidence)  (line 567), in units of 1/SCALE point
ConfidenceCap(base_confidence) == Min(100 * SCALE, base_confidence)

\* The AOI-wide scores (lines 476-493).
BaseScores(a) ==
    LET all_deforestation == a.glad_alerts \o a.radd_alerts
    IN  [ spatial |-> calculate_spatial_proximity_score(
                          a.infrastructure, all_deforestation \o a.fires, MAX_PROXIMITY_DISTANCE_M),
          temporal |-> calculate_temporal_correlation_score(
                           a.fires, all_deforestation, TEMPORAL_WINDOW_DAYS),
          sentinel_scores |-> calculate_sentinel_scores(a.sentinel),
          density |-> calculate_alert_density_score(a.glad_alerts, a.radd_alerts, a.fires, a.aoi),
          sentiment |-> calculate_sentiment_score(a.sentiment) ]

\* The chain of one suspect (lines 498-525).
SuspectChain(a, b, suspect) ==
    LET suspect_infra == SuspectInfra(a.infrastructure, suspect)
        own == calculate_spatial_proximity_score(
                   suspect_infra, (a.glad_alerts \o a.radd_alerts) \o a.fires,
                   MAX_PROXIMITY_DISTANCE_M)
    IN  IF suspect_infra # << >>
        THEN build_evidence_chain(suspect, own.score, own.details,
                                  b.temporal.score, b.temporal.details,
                                  b.sentinel_scores, b.density, b.sentiment)
        ELSE build_evidence_chain(suspect, b.spatial.score \div 2, b.spatial.details,
                                  b.temporal.score, b.temporal.details,
                                  b.sentinel_scores, b.density, b.sentiment)

\* The suspects counted as one more evidence source, worth 5 points each.
MutConfidenceCountsSuspects(a, b) ==
    (PresenceBonus(a) + 5 * Len(a.suspects)) * SCALE
    + b.spatial.score * 15 + b.temporal.score * 10 + b.density.score * 10
    + b.sentinel_scores.ndvi.score * 5 + b.sentinel_scores.nbr.score * 5
    + b.sentinel_scores.burn.score * 5

\* base_confidence before the cap (lines 534-564), in units of 1/SCALE point
BaseConfidence(a, b) ==
    PresenceBonus(a) * SCALE
    + b.spatial.score * 15 + b.temporal.score * 10 + b.density.score * 10
    + b.sentinel_scores.ndvi.score * 5 + b.sentinel_scores.nbr.score * 5
    + b.sentinel_scores.burn.score * 5

correlate_events(a) ==
    LET b == BaseScores(a)
        evidence_chains == [ i \in 1..Len(a.suspects) |-> SuspectChain(a, b, a.suspects[i]) ]
    IN  [ evidence_chains |-> SortChains(evidence_chains),
          confidence_score |-> RoundHalfEven(ConfidenceCap(BaseConfidence(a, b)), MILLI) ]

\* glad_alerts extended in place (glad_alerts += radd_alerts) instead of the
\* new list of line 476
MutArgsExtendedInPlace(a) == [ a EXCEPT !.glad_alerts = @ \o a.radd_alerts ]

\* What the caller's argument objects hold after the call: the engine builds
\* new lists (glad_alerts + radd_alerts, line 476) and sorts only its own
\* evidence_chains (line 530).
ArgsAfterCall(a) == a

(***************************************************************************)
(* config.GLOBAL_REGIONS, config.is_region_covered.  Bounding boxes are    *)
(* records of coordinates in units of 0.01 degree.                         *)
(***************************************************************************)
BBox(min_lon, min_lat, max_lon, max_lat) ==
    [ min_lon |-> min_lon, min_lat |-> min_lat, max_lon |-> max_lon, max_lat |-> max_lat ]

GLOBAL_REGIONS ==
    [ amazon |-> BBox(-7300, -1500, -4500, 500),
      congo |-> BBox(900, -1300, 3100, 1000),
      riau |-> BBox(10000, -100, 10400, 300),
      borneo |-> BBox(10800, -450, 11950, 750),
      se_brazil |-> BBox(-5300, -2800, -4000, -1800),
      california |-> BBox(-12450, 3250, -11400, 4200),
      siberia |-> BBox(6000, 5000, 14000, 7500),
      australia |-> BBox(11300, -4400, 15400, -1000) ]

DATASET_COVERAGE ==
    [ hansen_gfc |-> [ coverage |-> "global", lat_range |-> << -9000, 9000 >> ],
      firms |-> [ coverage |-> "global", lat_range |-> << -9000, 9000 >> ],
      gfw_glad |-> [ coverage |-> "tropical", lat_range |-> << -3000, 3000 >> ],
      gfw_radd |-> [ coverage |-> "tropical_humid", lat_range |-> << -3000, 3000 >> ],
      sentinel_hub |-> [ coverage |-> "global", lat_range |-> << -9000, 9000 >> ],
      overpass |-> [ coverage |-> "global", lat_range |-> << -9000, 9000 >> ],
      gleif |-> [ coverage |-> "global", lat_range |-> None ],
      google_news |-> [ coverage |-> "global", lat_range |-> None ],
      gdelt |-> [ coverage |-> "global", lat_range |-> None ],
      reddit |-> [ coverage |-> "global", lat_range |-> None ] ]

\* Coverage decided on the centre of the AOI instead of its latitude interval.
MutCoveredByCentre(dataset, bbox) ==
    LET config == DATASET_COVERAGE[dataset]
        centre2 == bbox.min_lat + bbox.max_lat
    IN  IF config.coverage = "global" THEN [ covered |-> TRUE, skip_reason |-> None ]
        ELSE IF centre2 < 2 * config.lat_range[1] \/ centre2 > 2 * config.lat_range[2]
        THEN [ covered |-> FALSE, skip_reason |-> Some("Region outside coverage") ]
        ELSE [ covered |-> TRUE, skip_reason |-> None ]

is_region_covered(dataset, bbox) ==
    LET config == DATASET_COVERAGE[dataset]
        lat_min_allowed == config.lat_range[1]
        lat_max_allowed == config.lat_range[2]
    IN  IF dataset \notin DOMAIN DATASET_COVERAGE
        THEN [ covered |-> FALSE, skip_reason |-> Some("Unknown dataset") ]
        ELSE IF IsNone(config.lat_range) THEN [ covered |-> TRUE, skip_reason |-> None ]
        ELSE IF config.coverage = "global" THEN [ covered |-> TRUE, skip_reason |-> None ]
        ELSE IF config.coverage = "tropical"
        THEN IF bbox.max_lat < lat_min_allowed \/ bbox.min_lat > lat_max_allowed
             THEN [ covered |-> FALSE, skip_reason |-> Some("Region outside tropical coverage") ]
             ELSE [ covered |-> TRUE, skip_reason |-> None ]
        ELSE IF config.coverage = "tropical_humid"
        THEN IF bbox.max_lat < lat_min_allowed \/ bbox.min_lat > lat_max_allowed
             THEN [ covered |-> FALSE,
                    skip_reason |-> Some("Region outside tropical humid forest coverage") ]
             ELSE [ covered |-> TRUE,
                    skip_reason |-> Some("Coverage expanding; currently limited to primary humid tropical") ]
        ELSE [ covered |-> TRUE, skip_reason |-> None ]

(***************************************************************************)
(* utils.parse_bbox_string, utils.validate_bbox, main_api.resolve_bbox.    *)
(* A query string is the sequence of its comma-separated parts; a part is  *)
(* Some(n) when float() reads it as n hundredths of a degree and None when *)
(* float() raises ValueError.  The empty sequence is the empty string.     *)
(***************************************************************************)
Raise(detail) == [ raised |-> TRUE, value |-> None, detail |-> detail ]
Return(value) == [ raised |-> FALSE, value |-> Some(value), detail |-> "" ]

parse_bbox_string(bbox_str) ==
    IF \E i \in 1..Len(bbox_str) : IsNone(bbox_str[i])
    THEN Raise("could not convert string to float")
    ELSE IF Len(bbox_str) # 4
    THEN Raise("BBox must have exactly 4 comma-separated values")
    ELSE Return(BBox(Val(bbox_str[1]), Val(bbox_str[2]), Val(bbox_str[3]), Val(bbox_str[4])))

\* The area limits 1000 and 0.0001 square degrees, in units of 1e-4 square degree.
MaxAreaUnits == 1000 * 100 * 100

validate_bbox(bbox) ==
    LET area == (bbox.max_lon - bbox.min_lon) * (bbox.max_lat - bbox.min_lat)
    IN  IF ~(-18000 <= bbox.min_lon /\ bbox.min_lon <= 18000)
           \/ ~(-18000 <= bbox.max_lon /\ bbox.max_lon <= 18000)
        THEN [ valid |-> FALSE, error |-> Some("Longitude must be between -180 and 180") ]
        ELSE IF ~(-9000 <= bbox.min_lat /\ bbox.min_lat <= 9000)
                \/ ~(-9000 <= bbox.max_lat /\ bbox.max_lat <= 9000)
        THEN [ valid |-> FALSE, error |-> Some("Latitude must be between -90 and 90") ]
        ELSE IF bbox.min_lon > bbox.max_lon
        THEN [ valid |-> FALSE, error |-> Some("min_lon must be <= max_lon") ]
        ELSE IF bbox.min_lat > bbox.max_lat
        THEN [ valid |-> FALSE, error |-> Some("min_lat must be <= max_lat") ]
        ELSE IF area > MaxAreaUnits
        THEN [ valid |-> FALSE, error |-> Some("BBox area too large") ]
        ELSE IF area < 1
        THEN [ valid |-> FALSE, error |-> Some("BBox area too small") ]
        ELSE [ valid |-> TRUE, error |-> None ]

\* Python truth of an optional string and of an optional list: None and the
\* empty value are false.
TruthyStr(o) == ~IsNone(o) /\ Val(o) # ""
TruthyList(o) == ~IsNone(o) /\ Val(o) # << >>

\* region.lower().replace(" ", "_") on the region names the requests use
RegionLower(region) ==
    CASE region = "Riau" -> "riau"
      [] region = "SE Brazil" -> "se_brazil"
      [] OTHER -> region

\* A bbox string that parses is accepted without validation.
MutResolveAcceptsAnyBBox(region, bbox_str) ==
    IF TruthyStr(region) /\ RegionLower(Val(region)) \in DOMAIN GLOBAL_REGIONS
    THEN [ status |-> 200, bbox |-> Some(GLOBAL_REGIONS[RegionLower(Val(region))]),
           detail |-> "" ]
    ELSE IF TruthyList(bbox_str) /\ ~parse_bbox_string(Val(bbox_str)).raised
    THEN [ status |-> 200, bbox |-> parse_bbox_string(Val(bbox_str)).value, detail |-> "" ]
    ELSE [ status |-> 400, bbox |-> None, detail |-> "rejected" ]

resolve_bbox(region, bbox_str) ==
    IF TruthyStr(region)
    THEN LET region_lower == RegionLower(Val(region))
         IN  IF region_lower \notin DOMAIN GLOBAL_REGIONS
             THEN [ status |-> 400, bbox |-> None, detail |-> "Unknown region" ]
             ELSE [ status |-> 200, bbox |-> Some(GLOBAL_REGIONS[region_lower]),
                    detail |-> "" ]
    ELSE IF TruthyList(bbox_str)
    THEN LET parsed == parse_bbox_string(Val(bbox_str))
         IN  IF parsed.raised
             THEN [ status |-> 400, bbox |-> None, detail |-> parsed.detail ]
             ELSE LET checked == validate_bbox(Val(parsed.value))
                  IN  IF ~checked.valid
                      THEN [ status |-> 400, bbox |-> None, detail |-> Val(checked.error) ]
                      ELSE [ status |-> 200, bbox |-> parsed.value, detail |-> "" ]
    ELSE [ status |-> 400, bbox |-> None,
           detail |-> "Either 'region' or 'bbox' parameter required" ]

(***************************************************************************)
(* Inputs of the engine                                                    *)
(***************************************************************************)
MaxInfra == 3
MaxAlerts == 3
MaxSuspects == 3

\* kinds[1 + off], kinds[2 + off], ... cyclically, n entries
Pattern(kinds, n, off) == [ i \in 1..n |-> kinds[((i - 1 + off) % Len(kinds)) + 1] ]

Patterns(kinds, max) == { Pattern(kinds, n, off) : n \in 0..max, off \in 0..(Len(kinds) - 1) }

RECURSIVE SeqsUpTo(_, _)
SeqsUpTo(S, n) ==
    IF n = 0 THEN { << >> }
    ELSE LET shorter == SeqsUpTo(S, n - 1)
         IN  shorter \cup { Append(q, x) : q \in shorter, x \in S }

Node(id, name, operator, company, lat) ==
    [ osm_id |-> id, node_type |-> "industrial", name |-> name, operator |-> operator,
      company |-> company, latitude |-> lat ]

\* A node named "A" and a node operated by "B", both near the alerts, and a
\* node of company "A" far from them.
NodeKinds == << Node(1, Some("A"), None, None, 0), Node(2, None, Some("B"), None, 100),
                Node(3, Some("C"), None, Some("A"), 10000) >>

Alert(kind, lat, t) == [ kind |-> kind, latitude |-> lat, t |-> t ]

\* Latitudes stay within 0..19000 so that distances fit the integer width.
\* 4496 and 4497 units of latitude are 4999.3 m and 5000.4 m from latitude 0.
GladKinds == << Alert("GLADAlert", 50, 0), Alert("GLADAlert", 4496, -36),
                Alert("GLADAlert", 4497, 240), Alert("GLADAlert", 15000, 480) >>
RaddKinds == << Alert("RADDAlert", 20, 0), Alert("RADDAlert", 16000, 360) >>
FireKinds == << Alert("FireEvent", 10, 0), Alert("FireEvent", 30, 12),
                Alert("FireEvent", 40, -12), Alert("FireEvent", 60, 348),
                Alert("FireEvent", 17000, -400) >>

Sentinel(ndvi, nbr, burn) == Some([ ndvi |-> ndvi, nbr |-> nbr, burn_index |-> burn ])

Hansen(loss) == Some([ total_loss_ha |-> loss ])

Sentiment(final_score, confidence) ==
    Some([ final_score |-> final_score, confidence |-> confidence ])

Company(name, lei) == [ name |-> name, lei |-> lei ]

\* For each argument an absent and a saturating value.
CornerOf ==
    [ aoi |-> { BBox(0, 0, 2, 2), BBox(6000, 5000, 14000, 7500) },
      hansen |-> { None, Hansen(10) },
      glad_alerts |-> { << >>, Pattern(<< GladKinds[1] >>, MaxAlerts, 0) },
      radd_alerts |-> { << >>, Pattern(<< RaddKinds[1] >>, MaxAlerts, 0) },
      fires |-> { << >>, Pattern(<< FireKinds[1] >>, MaxAlerts, 0) },
      sentinel |-> { None, Sentinel(Some(-200), Some(-500), Some(667)) },
      infrastructure |-> { << >>, Pattern(SubSeq(NodeKinds, 1, 2), MaxInfra + 2, 0) },
      suspects |-> { << >>, << Company("Z", None), Company("A", None), Company("B", None) >> },
      sentiment |-> { None, Sentiment(-1000, 1000) } ]

\* For each argument its full range: the index values and polarities on both
\* sides of every threshold of the scoring functions, degenerate AOIs, lists
\* of every length up to the bound.
FullOf ==
    [ aoi |-> CornerOf.aoi
              \cup { BBox(0, 0, 10, 10), BBox(0, 0, 100, 100), BBox(10000, -100, 10400, 300),
                     BBox(0, 8900, 100, 9000), BBox(0, 0, 0, 0), BBox(5, 5, 0, 0),
                     BBox(5, 0, 0, 5) },
      hansen |-> { None, Hansen(0), Hansen(10) },
      glad_alerts |-> Patterns(GladKinds, MaxAlerts),
      radd_alerts |-> Patterns(RaddKinds, MaxAlerts),
      fires |-> Patterns(FireKinds, MaxAlerts),
      sentinel |->
          CornerOf.sentinel
          \cup { Sentinel(v, w, Some(667)) :
                    v \in { None, Some(-1000), Some(-200), Some(0), Some(199), Some(200),
                            Some(399), Some(400), Some(1000) },
                    w \in { None, Some(0), Some(-500) } }
          \cup { Sentinel(v, w, Some(667)) :
                    v \in { None, Some(0), Some(-200) },
                    w \in { None, Some(-1000), Some(-500), Some(-101), Some(-100), Some(0),
                            Some(99), Some(100), Some(1000) } }
          \cup { Sentinel(v, None, w) :
                    v \in { None, Some(-200) },
                    w \in { None, Some(-50), Some(0), Some(150), Some(151), Some(300),
                            Some(301), Some(667), Some(1000) } },
      infrastructure |-> Patterns(NodeKinds, MaxInfra),
      suspects |-> SeqsUpTo({ Company("A", Some("LEI-A")), Company("B", None),
                              Company("Z", None), Company("A", None) }, MaxSuspects),
      sentiment |-> CornerOf.sentiment
                    \cup { Sentiment(f, c) : f \in { -1000, -301, -300, -1, 0, 199, 200, 1000 },
                                             c \in { 0, 500, 1000 } } ]

\* Every combination of an absent and a saturating value of each argument.
ArgsCube ==
    [ aoi : CornerOf.aoi, hansen : CornerOf.hansen, glad_alerts : CornerOf.glad_alerts,
      radd_alerts : CornerOf.radd_alerts, fires : CornerOf.fires, sentinel : CornerOf.sentinel,
      infrastructure : CornerOf.infrastructure, suspects : CornerOf.suspects,
      sentiment : CornerOf.sentiment ]

ArgsBases ==
    { c \in ArgsCube :
        /\ c.aoi = BBox(0, 0, 2, 2)
        /\ (c.glad_alerts = << >>) = (c.fires = << >>)
        /\ (c.glad_alerts = << >>) = (c.radd_alerts = << >>)
        /\ (c.glad_alerts = << >>) = (c.infrastructure = << >>)
        /\ (c.sentinel = None) = (c.sentiment = None)
        /\ (c.sentinel = None) = (c.hansen = None)
        /\ c.suspects # << >> }

\* The cube, then each argument over its full range with the others at a base,
\* then infrastructure and suspects together over their full ranges.
ArgsSet ==
    ArgsCube
    \cup UNION { UNION { { [ b EXCEPT ![f] = v ] : v \in FullOf[f] } : f \in DOMAIN FullOf } :
                 b \in ArgsBases }
    \cup { [ b EXCEPT !.infrastructure = i, !.suspects = s ] :
             b \in ArgsBases, i \in FullOf.infrastructure, s \in FullOf.suspects }

(***************************************************************************)
(* Results of the collaborators.  A task is idle, pending or done; a done  *)
(* task holds either the exception that escaped the coroutine (gather with *)
(* return_exceptions=True returns it in place of the result) or the dict   *)
(* the coroutine returned.  data is None or the payload; list payloads are *)
(* the list itself.                                                        *)
(***************************************************************************)
Idle ==
    [ status |-> "idle", raised |-> FALSE, exc_type |-> "", message |-> "", data |-> << >>,
      error |-> None, skipped |-> FALSE, skip_reason |-> None, source_error |-> None ]

Pending == [ Idle EXCEPT !.status = "pending" ]

Returned(data, error) == [ Idle EXCEPT !.status = "done", !.data = data, !.error = error ]

SkippedResult(skip_reason) ==
    [ Idle EXCEPT !.status = "done", !.skipped = TRUE, !.skip_reason = skip_reason ]

Raised(exc_type, message) ==
    [ Idle EXCEPT !.status = "done", !.raised = TRUE, !.exc_type = exc_type,
                  !.message = message ]

\* What a coroutine did: its result, the rate-limit tokens it took and the
\* external requests it sent.
Outcome(result, tokens, calls) == [ result |-> result, tokens |-> tokens, calls |-> calls ]

SourceError(source, error_type, message, retryable) ==
    [ source |-> source, error_type |-> error_type, message |-> message,
      retryable |-> retryable ]

CoverageNote(dataset, status, reason) ==
    [ dataset |-> dataset, status |-> status, reason |-> reason ]

\* utils.create_source_error (messages here are shorter than the 500
\* characters it keeps)
create_source_error(source, exception, retryable) ==
    SourceError(source, exception.exc_type, exception.message, retryable)

(***************************************************************************)
(* The environment of one run: every external request either succeeds or   *)
(* fails, and the failures of a run show as an exception with a message,   *)
(* as an exception whose str() is empty (httpx.ReadTimeout), or as an      *)
(* exception that escapes the coroutine.                                   *)
(***************************************************************************)
Envs == { "ok", "fails" }

\* str(e) of the failure
ExcText(mode) == IF mode = "empty" THEN "" ELSE "connection failed"

Failure(mode, data) ==
    IF mode = "raise" THEN Raised("ConnectError", "connection failed")
    ELSE Returned(data, Some(ExcText(mode)))

SentinelEvidence(ndvi, nbr, burn, truecolor) ==
    Some([ ndvi |-> ndvi, nbr |-> nbr, burn_index |-> burn, truecolor_url |-> truecolor ])

\* satellite_intel.fetch_hansen_stats and fetch_firms
fetch_hansen_stats(aoi, env, mode) ==
    IF ~is_region_covered("hansen_gfc", aoi).covered
    THEN Outcome(SkippedResult(is_region_covered("hansen_gfc", aoi).skip_reason), 0, 0)
    ELSE IF env = "ok" THEN Outcome(Returned(Hansen(10), None), 0, 1)
    ELSE Outcome(Failure(mode, None), 0, 1)

fetch_firms(aoi, env, mode) ==
    IF ~is_region_covered("firms", aoi).covered
    THEN Outcome(SkippedResult(is_region_covered("firms", aoi).skip_reason), 0, 0)
    ELSE IF env = "ok" THEN Outcome(Returned(<< FireKinds[1], FireKinds[2] >>, None), 0, 1)
    ELSE Outcome(Failure(mode, << >>), 0, 1)

\* satellite_intel.fetch_glad_alerts and fetch_radd_alerts
fetch_glad_alerts(aoi, settings, env, mode) ==
    LET coverage == is_region_covered("gfw_glad", aoi)
    IN  IF ~coverage.covered THEN Outcome(SkippedResult(coverage.skip_reason), 0, 0)
        ELSE IF ~settings.gfw_api_key
        THEN Outcome(Returned(<< >>, Some("GFW_API_KEY not configured")), 0, 0)
        ELSE IF env = "ok" THEN Outcome(Returned(<< GladKinds[1], GladKinds[2] >>, None), 1, 1)
        ELSE Outcome(Failure(mode, << >>), 1, 1)

fetch_radd_alerts(aoi, settings, env, mode) ==
    LET coverage == is_region_covered("gfw_radd", aoi)
    IN  IF ~coverage.covered THEN Outcome(SkippedResult(coverage.skip_reason), 0, 0)
        ELSE IF ~settings.gfw_api_key
        THEN Outcome(Returned(<< >>, Some("GFW_API_KEY not configured")), 0, 0)
        ELSE IF env = "ok" THEN Outcome(Returned(<< RaddKinds[1] >>, None), 1, 1)
        ELSE Outcome(Failure(mode, << >>), 1, 1)

\* satellite_intel.fetch_sentinel_evidence: the three index fetches compute
\* their value locally; the true-colour fetch takes a token and returns its
\* failure as a result, which the evidence shows only as a missing image.
\* An exception escapes when SentinelEvidence(...) rejects a value.
fetch_sentinel_evidence(aoi, env, mode) ==
    IF env = "ok"
    THEN Outcome(Returned(SentinelEvidence(Some(650), Some(400), Some(150),
                                           Some("data:image/png")), None), 1, 1)
    ELSE IF mode = "raise" THEN Outcome(Raised("ValidationError", "connection failed"), 1, 1)
    ELSE Outcome(Returned(SentinelEvidence(Some(650), Some(400), Some(150), None), None), 1, 1)

\* suspect_profiler.identify_nearby_infrastructure: three endpoints, a token each
identify_nearby_infrastructure(aoi, env, mode) ==
    IF env = "ok"
    THEN Outcome(Returned(<< Node(11, Some("Acme Pulp"), None, None, 0),
                             Node(12, None, Some("Borneo Timber"), None, 100) >>, None), 1, 1)
    ELSE IF mode = "raise" THEN Outcome(Raised("ConnectError", "connection failed"), 3, 3)
    ELSE IF mode = "empty"
    THEN Outcome(Returned(<< >>, Some("All Overpass endpoints failed: ")), 3, 3)
    ELSE Outcome(Returned(<< >>, Some("All Overpass endpoints failed: connection failed")), 3, 3)

(***************************************************************************)
(* main_api.get_dossier, lines 329-407: one result of the Phase-1 gather   *)
(***************************************************************************)
Processed(value, errors, notes) == [ value |-> value, errors |-> errors, notes |-> notes ]

ProcessResult(source, result, checks_skipped) ==
    IF result.raised
    THEN Processed(<< >>, << create_source_error(source, result, TRUE) >>, << >>)
    ELSE IF checks_skipped /\ result.skipped
    THEN Processed(<< >>, << >>, << CoverageNote(source, "skipped", result.skip_reason) >>)
    ELSE IF TruthyStr(result.error)
    THEN Processed(<< >>, << SourceError(source, "FetchError", Val(result.error), TRUE) >>,
                   << >>)
    ELSE Processed(result.data, << >>, << >>)

(***************************************************************************)
(* social_voice.py                                                         *)
(***************************************************************************)
SentimentScore(count, score) == Some([ count |-> count, score |-> score ])


fetch_google_news_sentiment(settings, env, mode) ==
    IF ~settings.google_cse_api_key
    THEN Outcome(Returned(None, Some("Google CSE not configured")), 0, 0)
    ELSE IF env = "ok" THEN Outcome(Returned(SentimentScore(10, -600), None), 1, 1)
    ELSE Outcome(Failure(mode, None), 1, 1)

fetch_gdelt_sentiment(env, mode) ==
    IF env = "ok" THEN Outcome(Returned(SentimentScore(20, -200), None), 1, 1)
    ELSE Outcome(Failure(mode, None), 1, 1)

\* Three subreddit searches, each behind rate_limit("reddit").
fetch_reddit_sentiment(settings, env, mode) ==
    IF ~settings.reddit_client_id
    THEN Outcome([ Returned(None, Some("Reddit API not configured")) EXCEPT
                     !.source_error =
                         Some(SourceError("reddit", "ConfigurationError",
                                          "Reddit credentials not configured", FALSE)) ],
                 0, 0)
    ELSE IF env = "ok" THEN Outcome(Returned(SentimentScore(5, 300), None), 3, 3)
    ELSE Outcome(Failure(mode, None), 3, 3)

\* extract_result (lines 517-541): the data and the errors it appends
extract_result(result, source_name) ==
    IF result.raised
    THEN [ data |-> None,
           errors |-> << SourceError(source_name, result.exc_type, result.message, FALSE) >> ]
    ELSE [ data |-> result.data,
           errors |->
               (IF ~IsNone(result.source_error) THEN << Val(result.source_error) >> ELSE << >>)
               \o (IF TruthyStr(result.error) /\ IsNone(result.data)
                   THEN << SourceError(source_name, "FetchError", Val(result.error), TRUE) >>
                   ELSE << >>) ]

\* "if score" alone, without "score.count > 0".
MutCountedIfPresent(score) == ~IsNone(score)

Counted(score) == ~IsNone(score) /\ Val(score).count > 0

\* Weights 0.5, 0.3, 0.2 in tenths; final_score and confidence in 1/MILLI.
compute_combined_sentiment(google, gdelt, reddit) ==
    LET weighted_sum == (IF Counted(google) THEN Val(google).score * 5 ELSE 0)
                        + (IF Counted(gdelt) THEN Val(gdelt).score * 3 ELSE 0)
                        + (IF Counted(reddit) THEN Val(reddit).score * 2 ELSE 0)
        total_weight == (IF Counted(google) THEN 5 ELSE 0) + (IF Counted(gdelt) THEN 3 ELSE 0)
                        + (IF Counted(reddit) THEN 2 ELSE 0)
        total_count == (IF Counted(google) THEN Val(google).count ELSE 0)
                       + (IF Counted(gdelt) THEN Val(gdelt).count ELSE 0)
                       + (IF Counted(reddit) THEN Val(reddit).count ELSE 0)
        source_count == (IF Counted(google) THEN 1 ELSE 0) + (IF Counted(gdelt) THEN 1 ELSE 0)
                        + (IF Counted(reddit) THEN 1 ELSE 0)
        sample_confidence == Min(MILLI, total_count * 20)
    IN  [ google |-> google, gdelt |-> gdelt, reddit |-> reddit,
          final_score |-> IF total_weight > 0 THEN RoundHalfEven(weighted_sum, total_weight)
                          ELSE 0,
          confidence |-> RoundHalfEven(sample_confidence * 18 + source_count * 4 * MILLI, 30) ]

\* fetch_all_sentiment after its gather (lines 513-548)
fetch_all_sentiment(google_result, gdelt_result, reddit_result) ==
    LET google == extract_result(google_result, "google_news")
        gdelt == extract_result(gdelt_result, "gdelt")
        reddit == extract_result(reddit_result, "reddit")
    IN  [ combined |-> compute_combined_sentiment(google.data, gdelt.data, reddit.data),
          errors |-> (google.errors \o gdelt.errors) \o reddit.errors ]

(***************************************************************************)
(* suspect_profiler.py: company enrichment                                 *)
(***************************************************************************)
MAX_ENRICHED == 10
ENRICH_CONCURRENCY == 3

\* The set company_names (lines 270-282)
CompanyNames(infrastructure) ==
    UNION { { Val(f) : f \in { g \in { infrastructure[i].name, infrastructure[i].operator,
                                       infrastructure[i].company } : TruthyStr(g) } } :
            i \in 1..Len(infrastructure) }

\* list(company_names)[:10] : the names in any order of the set, cut at 10
NameLists(names) ==
    LET n == Min(Cardinality(names), MAX_ENRICHED)
    IN  { q \in [ 1..n -> names ] : \A i, j \in 1..n : i # j => q[i] # q[j] }

\* enrich_company; "" and "X" strip() to fewer than two characters
enrich_company(name, env, mode) ==
    IF name \in { "", "X" } THEN Outcome(Returned(None, Some("Invalid company name")), 0, 0)
    ELSE IF env = "ok" THEN Outcome(Returned(Some(Company(name, Some("LEI-1"))), None), 1, 1)
    ELSE Outcome(Returned(None, Some(ExcText(IF mode = "raise" THEN "message" ELSE mode))), 1, 1)

\* for result in results: if isinstance(result, Company)  (lines 301-305)
RECURSIVE Companies(_)
Companies(tasks) ==
    IF tasks = << >> THEN << >>
    ELSE IF ~Head(tasks).result.raised /\ ~IsNone(Head(tasks).result.data)
    THEN << Val(Head(tasks).result.data) >> \o Companies(Tail(tasks))
    ELSE Companies(Tail(tasks))

\* Names that nodes of the infrastructure carry, in one iteration order of a set.
EnrichNames ==
    << "Acme Pulp", "Borneo Timber", "Citra Mill", "Delta Palm", "Eka Logging", "Fajar Mining",
       "Garuda Agro", "Hutan Lestari", "Indo Sawit", "Jaya Pulp", "Kayu Mas" >>

\* list(company_names) without the [:10].
MutNamesUncut(names) ==
    LET forward == SelectSeq(EnrichNames, LAMBDA x : x \in names)
    IN  { forward, [ i \in 1..Len(forward) |-> forward[Len(forward) + 1 - i] ] }

\* list(company_names)[:10] under two iteration orders of the set: the order
\* of EnrichNames and its reverse.
NameOrders(names) ==
    LET forward == SelectSeq(EnrichNames, LAMBDA x : x \in names)
        backward == [ i \in 1..Len(forward) |-> forward[Len(forward) + 1 - i] ]
    IN  { SubSeq(forward, 1, Min(Len(forward), MAX_ENRICHED)),
          SubSeq(backward, 1, Min(Len(backward), MAX_ENRICHED)) }

(***************************************************************************)
(* State                                                                   *)
(***************************************************************************)
Phase1Set == { "hansen_gfc", "firms", "gfw_glad", "gfw_radd", "sentinel_hub", "overpass" }
SentimentSet == { "google_news", "gdelt", "reddit" }
Meters == Phase1Set \cup SentimentSet \cup { "gleif" }

VARIABLES
    settings,       \* which credentials the deployment has
    mode,           \* how the failures of this run show
    request,        \* the query parameters region and bbox
    dates,          \* the query parameters start_date and end_date, and utcnow()
    timeframe,      \* None, or the pair (start_dt, end_dt), in hours
    pc,             \* where get_dossier is
    response,       \* None, or the HTTP status and detail
    aoi,            \* the resolved bounding box
    task,           \* the coroutines of the two gathers, by source name
    enrich,         \* the limited_enrich coroutines, in list order
    tokens_taken,   \* rate-limit tokens taken, by coroutine
    ext_calls,      \* external requests sent, by coroutine
    bundle,         \* the locals hansen, fires, ..., suspects, sentiment
    source_errors, coverage_notes,
    dossier,
    args,           \* the argument objects of correlate_events
    args0,          \* what they held before the first call
    rets,           \* what the calls returned
    locals,         \* the scores of the last call
    clock,          \* time.monotonic(), in ticks of half a second
    rate_limiters,  \* the TokenBucketRateLimiter objects, by service
    locks,          \* their asyncio.Lock objects: the holder and the waiters
    callers,        \* the tasks that call rate_limit / acquire
    grants,         \* by service, the acquire calls that returned, in order
    call,           \* a function and the arguments of its calls, one after the other
    returned,       \* what the calls made so far returned, in order
    retry           \* the frame of retry_with_backoff: its loop, calls and sleeps

run_vars == << settings, mode, request, dates, timeframe, pc, response, aoi, task, enrich,
               tokens_taken, ext_calls, bundle, source_errors, coverage_notes, dossier >>
engine_vars == << args, args0, rets, locals >>
bucket_vars == << clock, rate_limiters, locks, callers, grants >>
call_vars == << call, returned, retry >>
vars == << run_vars, engine_vars, bucket_vars, call_vars >>

EmptyBundle ==
    [ hansen |-> None, fires |-> << >>, glad_alerts |-> << >>, radd_alerts |-> << >>,
      sentinel |-> None, infrastructure |-> << >>, suspects |-> << >>, sentiment |-> None ]

AllConfigured == [ gfw_api_key |-> TRUE, google_cse_api_key |-> TRUE, reddit_client_id |-> TRUE ]
NoneConfigured == [ gfw_api_key |-> FALSE, google_cse_api_key |-> FALSE,
                    reddit_client_id |-> FALSE ]

Request(region, bbox) == [ region |-> region, bbox |-> bbox ]
Parts(a, b, c, d) == Some(<< Some(a), Some(b), Some(c), Some(d) >>)

\* The request whose runs meet every environment.
RiauRequest == Request(Some("Riau"), None)

\* Requests that are accepted, then requests that are rejected.
Requests ==
    { RiauRequest,
      Request(Some("siberia"), None),
      Request(Some(""), Parts(0, 3000, 100, 3100)),
      Request(None, Parts(0, 3001, 100, 3100)),
      Request(None, Parts(0, -3100, 100, -3000)),
      Request(None, Parts(0, -3100, 100, -3001)),
      Request(Some("SE Brazil"), Some(<< Some(0), None >>)),
      Request(Some("riau"), Parts(0, 0, 20000, 20000)),
      Request(None, None),
      Request(Some(""), Some(<< >>)),
      Request(Some("atlantis"), None),
      Request(Some("atlantis"), Parts(0, 0, 100, 100)),
      Request(None, Some(<< Some(0), None, Some(100), Some(100) >>)),
      Request(None, Some(<< Some(0), Some(0), Some(100) >>)),
      Request(None, Parts(0, 0, 18100, 100)),
      Request(None, Parts(0, -9100, 100, 0)),
      Request(None, Parts(100, 0, 0, 100)),
      Request(None, Parts(0, 100, 100, 0)),
      Request(None, Parts(0, 0, 10000, 1001)),
      Request(None, Parts(0, 0, 0, 100)) }

\* A date parameter is None (omitted or empty, both false in `if end_date`)
\* or a string: the day it names when datetime.fromisoformat reads it, no
\* day when fromisoformat raises ValueError.
DateString(day) == Some([ iso |-> TRUE, day |-> day ])
Malformed == Some([ iso |-> FALSE, day |-> 0 ])

\* datetime.fromisoformat of a date string: midnight of the day, in hours
fromisoformat(date_string) ==
    IF Val(date_string).iso THEN Return(Val(date_string).day * 24)
    ELSE Raise("Invalid isoformat string")

\* timedelta(days=90)  (main_api line 304)
DEFAULT_WINDOW_DAYS == 90

Dates(start_date, end_date) ==
    [ start_date |-> start_date, end_date |-> end_date, utcnow |-> 400 * 24 + 13 ]

NoDates == Dates(None, None)

\* Lines 295-306: end_dt, then start_dt, then timeframe = (start_dt, end_dt).
ParseDates(d) ==
    LET end_dt == IF ~IsNone(d.end_date) THEN fromisoformat(d.end_date)
                  ELSE Return(d.utcnow)
        start_dt == IF ~IsNone(d.start_date) THEN fromisoformat(d.start_date)
                    ELSE Return(Val(end_dt.value) - DEFAULT_WINDOW_DAYS * 24)
    IN  IF end_dt.raised THEN end_dt
        ELSE IF start_dt.raised THEN start_dt
        ELSE Return(<< Val(start_dt.value), Val(end_dt.value) >>)

Scenarios ==
    LET DateCases ==
        { NoDates,
          Dates(None, DateString(200)), Dates(DateString(100), None), Dates(DateString(500), None),
          Dates(DateString(100), DateString(200)), Dates(DateString(200), DateString(200)),
          Dates(DateString(200), DateString(100)),
          Dates(None, Malformed), Dates(Malformed, DateString(200)), Dates(Malformed, None) }
    IN  { << r, c, m, NoDates >> : r \in { RiauRequest }, c \in { AllConfigured, NoneConfigured },
                                   m \in { "message", "empty", "raise" } }
        \cup { << r, AllConfigured, "message", NoDates >> : r \in Requests }
        \cup { << RiauRequest, NoneConfigured, "message", d >> : d \in DateCases }

(***************************************************************************)
(* utils.py: the token buckets                                             *)
(*                                                                         *)
(* Time is counted in ticks of half a second and a token is TokenUnit      *)
(* units, so that a bucket of 30, 60 or 120 tokens per minute gains 1, 2   *)
(* or 4 units per tick and every level, deficit and sleep is an integer.   *)
(***************************************************************************)
TokenUnit == 2 * 2

MaxClock == 4

\* The number of acquire calls made in one behaviour.
MaxCalls == 4

\* tokens_per_minute / 60.0 tokens per second, in units per tick.
RefillPerTick(tokens_per_minute) == (tokens_per_minute * TokenUnit) \div 120

\* TokenBucketRateLimiter.__init__ at time.monotonic() = created.
TokenBucketRateLimiter(tokens_per_minute, bucket_size, created) ==
    LET size == IF ~IsNone(bucket_size) /\ Val(bucket_size) # 0
                THEN Val(bucket_size) ELSE tokens_per_minute
    IN  [ tokens_per_minute |-> tokens_per_minute,
          bucket_size |-> size,
          tokens |-> size * TokenUnit,
          last_update |-> created ]

\* The module-level dictionary rate_limiters.
DefaultLimiters ==
    [ google   |-> TokenBucketRateLimiter(60, None, 0),
      sentinel |-> TokenBucketRateLimiter(30, None, 0),
      gfw      |-> TokenBucketRateLimiter(60, None, 0),
      overpass |-> TokenBucketRateLimiter(30, None, 0),
      gleif    |-> TokenBucketRateLimiter(60, None, 0),
      reddit   |-> TokenBucketRateLimiter(30, None, 0),
      gdelt    |-> TokenBucketRateLimiter(60, None, 0) ]

\* The same dictionary with buckets built with a small bucket_size: both
\* smaller and larger than the number of tokens a call asks for.
LimiterConfigs ==
    { [ DefaultLimiters EXCEPT !.gfw = TokenBucketRateLimiter(60, Some(2), 0),
                               !.overpass = TokenBucketRateLimiter(30, Some(1), 0) ],
      [ DefaultLimiters EXCEPT !.gfw = TokenBucketRateLimiter(120, Some(3), 0),
                               !.overpass = TokenBucketRateLimiter(30, Some(2), 0) ],
      [ DefaultLimiters EXCEPT !.gfw = TokenBucketRateLimiter(60, Some(1), 0) ] }

\* The refill without the min(bucket_size, .).
MutRefillNoCap(limiter, now) ==
    limiter.tokens + (now - limiter.last_update) * RefillPerTick(limiter.tokens_per_minute)

\* self.tokens = min(bucket_size, tokens + elapsed * (tokens_per_minute / 60))
Refill(limiter, now) ==
    Min(limiter.bucket_size * TokenUnit,
        limiter.tokens + (now - limiter.last_update) * RefillPerTick(limiter.tokens_per_minute))

\* min(wait_time, 1.0) seconds, in ticks, rounded up to the next tick.
SleepTicks(limiter, level, tokens) ==
    LET rate == RefillPerTick(limiter.tokens_per_minute)
    IN  Min((tokens * TokenUnit - level + rate - 1) \div rate, 2)

\* One lock for every bucket.
MutOneLockForAll(service) == "google"

\* rate_limiters[service]._lock: every limiter owns its asyncio.Lock.
LockOf(service) == service

FreeLock == [ holder |-> None, waiters |-> << >> ]

\* asyncio.Lock.release: the lock passes to the first waiter, if any.
Release(held, k) ==
    IF held[k].waiters = << >> THEN [ held EXCEPT ![k] = FreeLock ]
    ELSE [ held EXCEPT ![k] = [ holder |-> Some(Head(@.waiters)), waiters |-> Tail(@.waiters) ] ]

\* The tasks and the service each of them asks for; "nominatim" has no limiter.
TaskService ==
    [ t1 |-> "gfw", t2 |-> "gfw", t3 |-> "overpass", t4 |-> "nominatim" ]

IdleTask(service) ==
    [ service |-> service, tokens |-> 1, pc |-> "idle", wake |-> 0 ]

InitBucket(limiters) ==
    /\ clock = 0
    /\ rate_limiters = limiters
    /\ locks = [ s \in DOMAIN limiters |-> FreeLock ]
    /\ callers = [ c \in DOMAIN TaskService |-> IdleTask(TaskService[c]) ]
    /\ grants = [ s \in DOMAIN limiters |-> << >> ]

\* No function is called on its own during a run of the endpoint.
NoCall == [ fn |-> "none", inputs |-> << >> ]

\* retry_with_backoff before its loop, or not called at all.
Frame(pc0) ==
    [ pc |-> pc0, attempt |-> 0, calls |-> 0, slept |-> << >>, last_exception |-> None,
      raised |-> None ]

NoRetry == Frame("none")

InitRun ==
    /\ pc = "idle"
    /\ response = None
    /\ aoi = None
    /\ timeframe = None
    /\ task = [ c \in Phase1Set \cup SentimentSet |-> Idle ]
    /\ enrich = << >>
    /\ tokens_taken = [ c \in Meters |-> 0 ]
    /\ ext_calls = [ c \in Meters |-> 0 ]
    /\ bundle = EmptyBundle
    /\ source_errors = << >>
    /\ coverage_notes = << >>
    /\ dossier = None

Init ==
    /\ \E sc \in Scenarios :
          request = sc[1] /\ settings = sc[2] /\ mode = sc[3] /\ dates = sc[4]
    /\ InitRun
    /\ call = NoCall
    /\ returned = << >>
    /\ retry = NoRetry
    /\ InitBucket(DefaultLimiters)
    /\ args = None
    /\ args0 = None
    /\ rets = << >>
    /\ locals = None

(***************************************************************************)
(* GET /dossier                                                            *)
(***************************************************************************)
Meter(c, outcome) ==
    /\ tokens_taken' = [ tokens_taken EXCEPT ![c] = @ + outcome.tokens ]
    /\ ext_calls' = [ ext_calls EXCEPT ![c] = @ + outcome.calls ]

\* wait(return_when=FIRST_COMPLETED) in place of gather
MutGatherFirstCompleted(results) == \E r \in results : r.status = "done"

\* asyncio.gather returns when every awaitable has returned or raised.
GatherComplete(results) == \A r \in results : r.status = "done"

\* Lines 287-325: resolve the AOI and the time range, then create the six
\* Phase-1 coroutines and suspend in the gather; an HTTPException ends the
\* request with 400, a ValueError of fromisoformat with 500 (lines 471-475).
GetDossier ==
    /\ pc = "idle"
    /\ LET resolved == resolve_bbox(request.region, request.bbox)
           parsed == ParseDates(dates)
       IN  IF resolved.status = 400
           THEN /\ pc' = "rejected"
                /\ response' = Some([ status |-> 400, detail |-> resolved.detail ])
                /\ UNCHANGED << aoi, task, timeframe >>
           ELSE IF parsed.raised
           THEN /\ pc' = "failed"
                /\ response' = Some([ status |-> 500, detail |-> parsed.detail ])
                /\ UNCHANGED << aoi, task, timeframe >>
           ELSE /\ pc' = "phase1"
                /\ aoi' = resolved.bbox
                /\ timeframe' = parsed.value
                /\ task' = [ c \in DOMAIN task |-> IF c \in Phase1Set THEN Pending ELSE task[c] ]
                /\ UNCHANGED response
    /\ UNCHANGED << call_vars, bucket_vars, settings, mode, request, dates, enrich, tokens_taken, ext_calls, bundle,
                    source_errors, coverage_notes, dossier, engine_vars >>

Complete(c, outcome) ==
    /\ task[c].status = "pending"
    /\ task' = [ task EXCEPT ![c] = outcome.result ]
    /\ Meter(c, outcome)
    /\ UNCHANGED << call_vars, bucket_vars, dates, timeframe, settings, mode, request, pc, response, aoi, enrich, bundle, source_errors,
                    coverage_notes, dossier, engine_vars >>

FetchHansen == \E env \in Envs : Complete("hansen_gfc", fetch_hansen_stats(Val(aoi), env, mode))

FetchFirms == \E env \in Envs : Complete("firms", fetch_firms(Val(aoi), env, mode))

FetchGlad ==
    \E env \in Envs : Complete("gfw_glad", fetch_glad_alerts(Val(aoi), settings, env, mode))

FetchRadd ==
    \E env \in Envs : Complete("gfw_radd", fetch_radd_alerts(Val(aoi), settings, env, mode))

FetchSentinel ==
    \E env \in Envs : Complete("sentinel_hub", fetch_sentinel_evidence(Val(aoi), env, mode))

IdentifyInfrastructure ==
    \E env \in Envs : Complete("overpass", identify_nearby_infrastructure(Val(aoi), env, mode))

\* The coroutines of fetch_all_sentiment are created and main suspends in
\* their gather (lines 421-424, social_voice 506-511).
StartSentiment ==
    task' = [ c \in DOMAIN task |-> IF c \in SentimentSet THEN Pending ELSE task[c] ]

\* Lines 327-416: the gather has returned; every result is turned into a
\* signal, a SourceError or a CoverageNote, then enrichment begins if there
\* is infrastructure with a company name, otherwise the sentiment fetch.
JoinPhase1 ==
    /\ pc = "phase1"
    /\ GatherComplete({ task[c] : c \in Phase1Set })
    /\ LET hansen == ProcessResult("hansen_gfc", task["hansen_gfc"], FALSE)
           firms == ProcessResult("firms", task["firms"], FALSE)
           glad == ProcessResult("gfw_glad", task["gfw_glad"], TRUE)
           radd == ProcessResult("gfw_radd", task["gfw_radd"], TRUE)
           sentinel == ProcessResult("sentinel_hub", task["sentinel_hub"], FALSE)
           infra == ProcessResult("overpass", task["overpass"], FALSE)
           names == CompanyNames(infra.value)
       IN  /\ bundle' = [ bundle EXCEPT !.hansen = hansen.value, !.fires = firms.value,
                                        !.glad_alerts = glad.value, !.radd_alerts = radd.value,
                                        !.sentinel = sentinel.value,
                                        !.infrastructure = infra.value ]
           /\ source_errors' = hansen.errors \o firms.errors \o glad.errors \o radd.errors
                               \o sentinel.errors \o infra.errors
           /\ coverage_notes' = glad.notes \o radd.notes
           /\ IF names # { }
              THEN /\ \E q \in NameLists(names) :
                          enrich' = [ i \in 1..Len(q) |->
                                        [ name |-> q[i], status |-> "queued", result |-> Idle ] ]
                   /\ pc' = "enrich"
                   /\ UNCHANGED task
              ELSE /\ StartSentiment
                   /\ pc' = "sentiment"
                   /\ UNCHANGED enrich
    /\ UNCHANGED << call_vars, bucket_vars, dates, timeframe, settings, mode, request, response, aoi, tokens_taken, ext_calls, dossier,
                    engine_vars >>

\* limited_enrich enters the semaphore and enrich_company suspends in its lookup.
\* The tasks reach the semaphore in list order and it admits its waiters in
\* that order.
StartEnrich ==
    /\ \E i \in 1..Len(enrich) :
          /\ enrich[i].status = "queued"
          /\ \A j \in 1..(i - 1) : enrich[j].status # "queued"
          /\ Cardinality({ j \in 1..Len(enrich) : enrich[j].status = "running" })
                 < ENRICH_CONCURRENCY
          /\ enrich' = [ enrich EXCEPT ![i].status = "running" ]
    /\ UNCHANGED << call_vars, bucket_vars, dates, timeframe, settings, mode, request, pc, response, aoi, task, tokens_taken, ext_calls,
                    bundle, source_errors, coverage_notes, dossier, engine_vars >>

\* The lookup returns or fails; limited_enrich leaves the semaphore.
FinishEnrich ==
    /\ \E i \in 1..Len(enrich), env \in Envs :
          /\ enrich[i].status = "running"
          /\ LET outcome == enrich_company(enrich[i].name, env, mode)
             IN  /\ enrich' = [ enrich EXCEPT ![i].status = "done",
                                              ![i].result = outcome.result ]
                 /\ Meter("gleif", outcome)
    /\ UNCHANGED << call_vars, bucket_vars, dates, timeframe, settings, mode, request, pc, response, aoi, task, bundle, source_errors,
                    coverage_notes, dossier, engine_vars >>

\* enrich_infrastructure_companies returns the companies (lines 299-307),
\* main goes on to the sentiment fetch.
JoinEnrich ==
    /\ pc = "enrich"
    /\ GatherComplete({ [ status |-> enrich[i].status ] : i \in 1..Len(enrich) })
    /\ bundle' = [ bundle EXCEPT !.suspects = Companies(enrich) ]
    /\ StartSentiment
    /\ pc' = "sentiment"
    /\ UNCHANGED << call_vars, bucket_vars, dates, timeframe, settings, mode, request, response, aoi, enrich, tokens_taken, ext_calls,
                    source_errors, coverage_notes, dossier, engine_vars >>

FetchGoogle ==
    \E env \in Envs : Complete("google_news", fetch_google_news_sentiment(settings, env, mode))

FetchGdelt == \E env \in Envs : Complete("gdelt", fetch_gdelt_sentiment(env, mode))

FetchReddit ==
    \E env \in Envs : Complete("reddit", fetch_reddit_sentiment(settings, env, mode))

\* Lines 424-443: the sentiment and its errors are taken, correlate_events is
\* called on the bundle.
JoinSentiment ==
    /\ pc = "sentiment"
    /\ GatherComplete({ task[c] : c \in SentimentSet })
    /\ LET fetched == fetch_all_sentiment(task["google_news"], task["gdelt"], task["reddit"])
           b == [ bundle EXCEPT !.sentiment = Some(fetched.combined) ]
           a == [ aoi |-> Val(aoi), hansen |-> b.hansen, glad_alerts |-> b.glad_alerts,
                  radd_alerts |-> b.radd_alerts, fires |-> b.fires, sentinel |-> b.sentinel,
                  infrastructure |-> b.infrastructure, suspects |-> b.suspects,
                  sentiment |-> b.sentiment ]
       IN  /\ bundle' = b
           /\ source_errors' = source_errors \o fetched.errors
           /\ args' = a
           /\ args0' = a
    /\ pc' = "phase3"
    /\ UNCHANGED << call_vars, bucket_vars, dates, timeframe, settings, mode, request, response, aoi, task, enrich, tokens_taken,
                    ext_calls, coverage_notes, dossier, rets, locals >>

\* Dossier(...) accepts a confidence_score in [0,100] (api_models line 220).
DossierValid(d) == 0 <= d.confidence_score /\ d.confidence_score <= 100 * 10

\* Lines 432-475: Phase 3 and the response.
Phase3 ==
    /\ pc = "phase3"
    /\ LET ret == correlate_events(args)
           d == [ region |-> request.region, bbox |-> Val(aoi), hansen |-> bundle.hansen,
                  gfw_glad |-> bundle.glad_alerts, gfw_radd |-> bundle.radd_alerts,
                  firms |-> bundle.fires, sentinel |-> bundle.sentinel,
                  nearby_infra |-> bundle.infrastructure, suspects |-> bundle.suspects,
                  sentiment |-> bundle.sentiment, evidence_chain |-> ret.evidence_chains,
                  confidence_score |-> ret.confidence_score, source_errors |-> source_errors,
                  coverage_notes |-> coverage_notes ]
       IN  /\ rets' = << ret >>
           /\ locals' = Some(BaseScores(args))
           /\ args' = ArgsAfterCall(args)
           /\ IF DossierValid(d)
              THEN /\ dossier' = Some(d)
                   /\ response' = Some([ status |-> 200, detail |-> "" ])
              ELSE /\ dossier' = None
                   /\ response' = Some([ status |-> 500, detail |-> "validation error" ])
    /\ pc' = "done"
    /\ UNCHANGED << call_vars, bucket_vars, dates, timeframe, settings, mode, request, aoi, task, enrich, tokens_taken, ext_calls, bundle,
                    source_errors, coverage_notes, args0 >>

Next ==
    \/ GetDossier
    \/ FetchHansen \/ FetchFirms \/ FetchGlad \/ FetchRadd \/ FetchSentinel
    \/ IdentifyInfrastructure
    \/ JoinPhase1
    \/ StartEnrich \/ FinishEnrich \/ JoinEnrich
    \/ FetchGoogle \/ FetchGdelt \/ FetchReddit
    \/ JoinSentiment
    \/ Phase3

Spec == Init /\ [][Next]_vars

(***************************************************************************)
(* The correlation engine alone, on every input of ArgsSet                 *)
(***************************************************************************)
InitEngine ==
    /\ args \in ArgsSet
    /\ args0 = args
    /\ rets = << >>
    /\ locals = None
    /\ request = Request(None, None) /\ settings = AllConfigured /\ mode = "message"
    /\ dates = NoDates
    /\ InitRun
    /\ call = NoCall
    /\ returned = << >>
    /\ retry = NoRetry
    /\ InitBucket(DefaultLimiters)

\* One invocation of correlate_events on the caller's objects.
Correlate ==
    /\ Len(rets) < 2
    /\ rets' = Append(rets, correlate_events(args))
    /\ locals' = Some(BaseScores(args))
    /\ args' = ArgsAfterCall(args)
    /\ UNCHANGED << args0, run_vars, bucket_vars, call_vars >>


SpecEngine == InitEngine /\ [][Correlate]_vars

(***************************************************************************)
(* suspect_profiler.enrich_infrastructure_companies on its own             *)
(***************************************************************************)
\* The function has collected company_names and created its limited_enrich
\* tasks (lines 270-298); get_dossier waits for it at line 413.  The
\* infrastructure has nodes sharing names (four distinct names) or nodes with
\* eleven distinct names.
InitEnrich ==
    /\ request = RiauRequest /\ settings = AllConfigured /\ mode = "message"
    /\ dates = NoDates
    /\ pc = "enrich"
    /\ response = None
    /\ aoi = None
    /\ timeframe = None
    /\ task = [ c \in Phase1Set \cup SentimentSet |-> Idle ]
    /\ \E infrastructure \in
            { << Node(21, Some(EnrichNames[1]), Some(EnrichNames[2]), Some(EnrichNames[1]), 0),
                 Node(22, Some(EnrichNames[3]), Some(EnrichNames[1]), None, 0),
                 Node(23, Some(EnrichNames[4]), Some(""), None, 0) >>,
              << Node(31, Some(EnrichNames[1]), Some(EnrichNames[2]), Some(EnrichNames[3]), 0),
                 Node(32, Some(EnrichNames[4]), Some(EnrichNames[5]), Some(EnrichNames[6]), 0),
                 Node(33, Some(EnrichNames[7]), Some(EnrichNames[8]), Some(EnrichNames[9]), 0),
                 Node(34, Some(EnrichNames[10]), Some(EnrichNames[11]), Some(EnrichNames[1]), 0) >> } :
          /\ bundle = [ EmptyBundle EXCEPT !.infrastructure = infrastructure ]
          /\ \E q \in NameOrders(CompanyNames(infrastructure)) :
                enrich = [ i \in 1..Len(q) |->
                             [ name |-> q[i], status |-> "queued", result |-> Idle ] ]
    /\ tokens_taken = [ c \in Meters |-> 0 ]
    /\ ext_calls = [ c \in Meters |-> 0 ]
    /\ source_errors = << >>
    /\ coverage_notes = << >>
    /\ dossier = None
    /\ call = NoCall
    /\ returned = << >>
    /\ retry = NoRetry
    /\ InitBucket(DefaultLimiters)
    /\ args = None
    /\ args0 = None
    /\ rets = << >>
    /\ locals = None

SpecEnrich == InitEnrich /\ [][StartEnrich \/ FinishEnrich \/ JoinEnrich]_vars

(***************************************************************************)
(* utils.py: acquire and rate_limit                                        *)
(***************************************************************************)
\* One pass of the loop of acquire, run by task c (whose record is me) while
\* it holds the lock: refill, then consume and return, or sleep with the lock held.
LoopBody(c, me, held) ==
    LET s == me.service
        limiter == rate_limiters[s]
        level == Refill(limiter, clock)
        want == me.tokens * TokenUnit
    IN  IF level >= want
        THEN /\ rate_limiters' = [ rate_limiters EXCEPT ![s].tokens = level - want,
                                                       ![s].last_update = clock ]
             /\ grants' = [ grants EXCEPT ![s] =
                               Append(@, [ time |-> clock, tokens |-> me.tokens,
                                           available |-> level, left |-> level - want ]) ]
             /\ locks' = Release(held, LockOf(s))
             /\ callers' = [ callers EXCEPT ![c] = IdleTask(s) ]
        ELSE /\ rate_limiters' = [ rate_limiters EXCEPT ![s].tokens = level,
                                                       ![s].last_update = clock ]
             /\ grants' = grants
             /\ locks' = held
             /\ callers' = [ callers EXCEPT ![c] =
                                [ me EXCEPT !.pc = "sleeping",
                                            !.wake = clock + SleepTicks(limiter, level, me.tokens) ] ]

\* The acquire calls made so far: those that returned and those under way.
RECURSIVE Calls(_)
Calls(services) ==
    IF services = { } THEN Cardinality({ c \in DOMAIN callers : callers[c].pc # "idle" })
    ELSE LET s == CHOOSE x \in services : TRUE IN Len(grants[s]) + Calls(services \ { s })

\* rate_limit(service) / acquire(tokens): a service without a limiter returns
\* at once; a free lock is taken without suspending; a held one is queued for.
Acquire(c) ==
    /\ callers[c].pc = "idle"
    /\ Calls(DOMAIN grants) < MaxCalls
    /\ LET s == callers[c].service
           k == LockOf(s)
       IN  IF s \notin DOMAIN rate_limiters
           THEN UNCHANGED << rate_limiters, locks, callers, grants >>
           ELSE \E tokens \in { 1, 2 } :
                   LET me == [ callers[c] EXCEPT !.tokens = tokens ]
                   IN  IF locks[k] = FreeLock
                       THEN LoopBody(c, me, [ locks EXCEPT ![k].holder = Some(c) ])
                       ELSE /\ locks' = [ locks EXCEPT ![k].waiters = Append(@, c) ]
                            /\ callers' = [ callers EXCEPT ![c] = [ me EXCEPT !.pc = "waiting" ] ]
                            /\ UNCHANGED << rate_limiters, grants >>
    /\ UNCHANGED << clock, run_vars, engine_vars, call_vars >>

\* A queued task is handed the lock and runs the loop.
Resume(c) ==
    /\ callers[c].pc = "waiting"
    /\ locks[LockOf(callers[c].service)].holder = Some(c)
    /\ LoopBody(c, callers[c], locks)
    /\ UNCHANGED << clock, run_vars, engine_vars, call_vars >>

\* asyncio.sleep returns, not before its delay has passed.
Wake(c) ==
    /\ callers[c].pc = "sleeping"
    /\ clock >= callers[c].wake
    /\ LoopBody(c, callers[c], locks)
    /\ UNCHANGED << clock, run_vars, engine_vars, call_vars >>

\* time.monotonic() advances.
Tick ==
    /\ clock < MaxClock
    /\ clock' = clock + 1
    /\ UNCHANGED << rate_limiters, locks, callers, grants, run_vars, engine_vars, call_vars >>

InitLimiters ==
    /\ \E limiters \in LimiterConfigs : InitBucket(limiters)
    /\ request = Request(None, None) /\ settings = AllConfigured /\ mode = "message"
    /\ dates = NoDates
    /\ InitRun
    /\ call = NoCall
    /\ returned = << >>
    /\ retry = NoRetry
    /\ args = None
    /\ args0 = None
    /\ rets = << >>
    /\ locals = None

SpecLimiters ==
    InitLimiters /\ [][Tick \/ \E c \in DOMAIN TaskService : Acquire(c) \/ Resume(c) \/ Wake(c)]_vars

\* Time passes while the event loop waits for a timer, which it does only
\* when no task is ready: none can resume with the lock, none can wake.
TickWhenIdle ==
    LET Ready(c) == \/ /\ callers[c].pc = "waiting"
                       /\ locks[LockOf(callers[c].service)].holder = Some(c)
                    \/ /\ callers[c].pc = "sleeping"
                       /\ clock >= callers[c].wake
    IN  /\ \A c \in DOMAIN TaskService : ~Ready(c)
        /\ Tick

\* The buckets under the scheduling of the event loop: a task that is ready
\* runs, and time goes on.
SpecLimitersFair ==
    /\ InitLimiters
    /\ [][TickWhenIdle \/ \E c \in DOMAIN TaskService : Acquire(c) \/ Resume(c) \/ Wake(c)]_vars
    /\ WF_vars(TickWhenIdle)
    /\ \A c \in DOMAIN TaskService : WF_vars(Resume(c)) /\ WF_vars(Wake(c))

(***************************************************************************)
(* The scoring functions called on their own                               *)
(***************************************************************************)
\* The calls of a function: its name and the arguments of each call.  A
\* sentiment source hands over nothing, a search that found nothing, or
\* articles with their polarity in 1/MILLI.  The spatial score gets up to
\* MaxInfra nodes and up to twice MaxAlerts alerts and fires, and a maximal
\* distance on either side of the 5000.4 m of one alert.  The temporal score
\* gets up to MaxAlerts fires and as many alerts, and a window of 14 or 7
\* days, or is called twice: on a fire some hours after an alert and on a fire
\* as many hours before it.  The imagery scores are called twice, on two burn indices in 1/MILLI
\* around the thresholds 0.15 and 0.3, and the density score twice on two
\* numbers of alerts in one AOI: 240 sq km, where 12, 48 and 120 alerts are
\* just below 5, 20 and 50 alerts per 100 sq km, or 4 by 4 degrees.
FunctionCalls(fn) ==
    CASE fn = "compute_combined_sentiment" ->
           LET scores == { None, SentimentScore(0, -500), SentimentScore(5, -1000),
                           SentimentScore(10, -500), SentimentScore(20, -333),
                           SentimentScore(60, 1000) }
           IN  { [ fn |-> fn, inputs |-> << << google, gdelt, reddit >> >> ] :
                   google \in scores, gdelt \in scores, reddit \in scores }
      [] fn = "calculate_spatial_proximity_score" ->
           { [ fn |-> fn, inputs |-> << << infrastructure, alerts, max_distance >> >> ] :
               infrastructure \in Patterns(NodeKinds, MaxInfra),
               alerts \in Patterns(FireKinds \o GladKinds, 2 * MaxAlerts),
               max_distance \in { MAX_PROXIMITY_DISTANCE_M, 6000 } }
      [] fn = "calculate_temporal_correlation_score" ->
           { [ fn |-> fn, inputs |-> << << fires, deforestation_alerts, window_days >> >> ] :
               fires \in Patterns(FireKinds, MaxAlerts),
               deforestation_alerts \in Patterns(GladKinds \o RaddKinds, MaxAlerts),
               window_days \in { TEMPORAL_WINDOW_DAYS, 7 } }
           \cup
           { [ fn |-> fn,
               inputs |-> << << << Alert("FireEvent", 0, t + d) >>,
                                << Alert("GLADAlert", 0, t) >>, TEMPORAL_WINDOW_DAYS >>,
                             << << Alert("FireEvent", 0, t - d) >>,
                                << Alert("GLADAlert", 0, t) >>, TEMPORAL_WINDOW_DAYS >> >> ] :
               t \in { 0, 240 }, d \in { 0, 12, 24, 36, 336, 348, 360 } }
      [] fn = "calculate_sentinel_scores" ->
           LET indices == { -50, 0, 150, 151, 299, 300, 301, 400, 667, 1000 }
           IN  { [ fn |-> fn, inputs |-> << << Sentinel(None, None, Some(b1)) >>,
                                            << Sentinel(None, None, Some(b2)) >> >> ] :
                   b1 \in indices, b2 \in indices }
      [] fn = "calculate_alert_density_score" ->
           LET totals == { 0, 1, 12, 13, 30, 48, 49, 60, 120, 121, 130 }
               glad(n) == Pattern(GladKinds, n \div 2, 0)
               fires(n) == Pattern(FireKinds, n - n \div 2, 0)
           IN  { [ fn |-> fn, inputs |-> << << glad(n1), << >>, fires(n1), bbox >>,
                                            << glad(n2), << >>, fires(n2), bbox >> >> ] :
                   n1 \in totals, n2 \in totals,
                   bbox \in { BBox(0, 0, 13, 15), BBox(10000, -100, 10400, 300) } }

\* The arguments of the call that comes next.
NextInput == call.inputs[Len(returned) + 1]

CombineSentiment ==
    /\ call.fn = "compute_combined_sentiment"
    /\ Len(returned) < Len(call.inputs)
    /\ returned' = Append(returned,
                          compute_combined_sentiment(NextInput[1], NextInput[2], NextInput[3]))
    /\ UNCHANGED << call, retry, run_vars, engine_vars, bucket_vars >>

ScoreProximity ==
    /\ call.fn = "calculate_spatial_proximity_score"
    /\ Len(returned) < Len(call.inputs)
    /\ returned' = Append(returned,
                          calculate_spatial_proximity_score(NextInput[1], NextInput[2],
                                                            NextInput[3]))
    /\ UNCHANGED << call, retry, run_vars, engine_vars, bucket_vars >>

ScoreTemporal ==
    /\ call.fn = "calculate_temporal_correlation_score"
    /\ Len(returned) < Len(call.inputs)
    /\ returned' = Append(returned,
                          calculate_temporal_correlation_score(NextInput[1], NextInput[2],
                                                               NextInput[3]))
    /\ UNCHANGED << call, retry, run_vars, engine_vars, bucket_vars >>

ScoreSentinel ==
    /\ call.fn = "calculate_sentinel_scores"
    /\ Len(returned) < Len(call.inputs)
    /\ returned' = Append(returned, calculate_sentinel_scores(NextInput[1]))
    /\ UNCHANGED << call, retry, run_vars, engine_vars, bucket_vars >>

ScoreDensity ==
    /\ call.fn = "calculate_alert_density_score"
    /\ Len(returned) < Len(call.inputs)
    /\ returned' = Append(returned,
                          calculate_alert_density_score(NextInput[1], NextInput[2],
                                                        NextInput[3], NextInput[4]))
    /\ UNCHANGED << call, retry, run_vars, engine_vars, bucket_vars >>

InitCalls ==
    /\ \E fn \in { "compute_combined_sentiment", "calculate_spatial_proximity_score",
                   "calculate_temporal_correlation_score", "calculate_sentinel_scores",
                   "calculate_alert_density_score" } :
          call \in FunctionCalls(fn)
    /\ returned = << >>
    /\ retry = NoRetry
    /\ request = Request(None, None) /\ settings = AllConfigured /\ mode = "message"
    /\ dates = NoDates
    /\ InitRun
    /\ InitBucket(DefaultLimiters)
    /\ args = None
    /\ args0 = None
    /\ rets = << >>
    /\ locals = None

SpecCalls ==
    InitCalls /\ [][CombineSentiment \/ ScoreProximity \/ ScoreTemporal \/ ScoreSentinel
                      \/ ScoreDensity]_vars


(***************************************************************************)
(* utils.retry_with_backoff                                                *)
(***************************************************************************)
MaxRetries == 3

\* Every exception of func taken for a retryable one.
MutRetryableAll(outcome) == outcome # "ok"

\* retryable_exceptions (line 92)
Retryable(outcome) == outcome \in { "TimeoutException", "NetworkError" }

\* One pass of the loop up to its next await or its end: the call of func,
\* then the return, the exception that escapes, or the start of the sleep.
\* With the loop exhausted (max_retries <= 0) "raise last_exception" raises
\* None, which is a TypeError.
Attempt ==
    /\ call.fn = "retry_with_backoff"
    /\ retry.pc = "loop"
    /\ LET script == call.inputs[1][1]
           max_retries == call.inputs[1][2]
           delays == call.inputs[1][3]
           n == retry.calls + 1
       IN  IF retry.attempt >= max_retries
           THEN /\ retry' = [ retry EXCEPT !.pc = "raised",
                                           !.raised = Some([ type |-> "TypeError", call |-> 0 ]) ]
                /\ returned' = returned
           ELSE IF script[n] = "ok"
           THEN /\ retry' = [ retry EXCEPT !.pc = "returned", !.calls = n ]
                /\ returned' = Append(returned, [ result_of_call |-> n ])
           ELSE IF ~Retryable(script[n])
           THEN /\ retry' = [ retry EXCEPT !.pc = "raised", !.calls = n,
                                           !.raised = Some([ type |-> script[n], call |-> n ]) ]
                /\ returned' = returned
           ELSE IF retry.attempt < max_retries - 1
           THEN /\ retry' = [ retry EXCEPT !.pc = "sleeping", !.calls = n,
                                           !.last_exception = Some([ type |-> script[n], call |-> n ]),
                                           !.slept = Append(@, delays[Min(retry.attempt, Len(delays) - 1) + 1]) ]
                /\ returned' = returned
           ELSE /\ retry' = [ retry EXCEPT !.pc = "raised", !.calls = n,
                                           !.attempt = @ + 1,
                                           !.last_exception = Some([ type |-> script[n], call |-> n ]),
                                           !.raised = Some([ type |-> script[n], call |-> n ]) ]
                /\ returned' = returned
    /\ UNCHANGED << call, run_vars, engine_vars, bucket_vars >>

\* asyncio.sleep(delay) is over: the next pass of the loop.
Backoff ==
    /\ call.fn = "retry_with_backoff"
    /\ retry.pc = "sleeping"
    /\ retry' = [ retry EXCEPT !.pc = "loop", !.attempt = @ + 1 ]
    /\ UNCHANGED << call, returned, run_vars, engine_vars, bucket_vars >>

\* func is given by what its successive calls do; max_retries runs from 0
\* to the bound, and delays is the default, a single delay or two delays.
InitRetry ==
    /\ call \in { [ fn |-> "retry_with_backoff", inputs |-> << << script, max_retries, delays >> >> ] :
                    script \in [ 1..MaxRetries ->
                                   { "ok", "TimeoutException", "NetworkError", "HTTPStatusError" } ],
                    max_retries \in 0..MaxRetries,
                    delays \in { << 1, 2, 4 >>, << 5 >>, << 1, 2 >> } }
    /\ returned = << >>
    /\ retry = Frame("loop")
    /\ request = Request(None, None) /\ settings = AllConfigured /\ mode = "message"
    /\ dates = NoDates
    /\ InitRun
    /\ InitBucket(DefaultLimiters)
    /\ args = None
    /\ args0 = None
    /\ rets = << >>
    /\ locals = None

SpecRetry == InitRetry /\ [][Attempt \/ Backoff]_vars

(***************************************************************************)
(* Properties of the correlation engine                                    *)
(***************************************************************************)
Called == rets # << >>

UnitScore(x) == 0 <= x /\ x <= SCALE

\* C3: the confidence score returned by correlate_events lies in [0,100]
\* for every combination of inputs, the one whose unclamped sum is 115
\* included (confidence_score is held in tenths of a point).
ConfidenceWithinBounds ==
    \A i \in 1..Len(rets) : 0 <= rets[i].confidence_score /\ rets[i].confidence_score <= 100 * 10

\* A call whose presence bonuses all apply and whose category scores are all 1.0.
ConfidenceSaturated ==
    /\ Called
    /\ PresenceBonus(args0) = 65
    /\ BaseConfidence(args0, BaseScores(args0)) = 115 * SCALE
    /\ rets[1].confidence_score = 100 * 10

SpatialInputsEmpty == args0.infrastructure = << >>
                      \/ (args0.glad_alerts \o args0.radd_alerts) \o args0.fires = << >>
TemporalInputsEmpty == args0.fires = << >> \/ args0.glad_alerts \o args0.radd_alerts = << >>
DensityInputsEmpty == Len(args0.glad_alerts) + Len(args0.radd_alerts) + Len(args0.fires) = 0

AllScoresInUnitRange ==
    Called =>
        LET b == Val(locals)
        IN  /\ UnitScore(b.spatial.score)
            /\ UnitScore(b.temporal.score)
            /\ UnitScore(b.sentinel_scores.ndvi.score)
            /\ UnitScore(b.sentinel_scores.nbr.score)
            /\ UnitScore(b.sentinel_scores.burn.score)
            /\ UnitScore(b.density.score)
            /\ UnitScore(b.sentiment.score)

EmptyInputsScoreZero ==
    Called =>
        LET b == Val(locals)
        IN  /\ SpatialInputsEmpty => b.spatial.score = 0
            /\ TemporalInputsEmpty => b.temporal.score = 0
            /\ IsNone(args0.sentinel) =>
                   /\ b.sentinel_scores.ndvi.score = 0
                   /\ b.sentinel_scores.nbr.score = 0
                   /\ b.sentinel_scores.burn.score = 0
            /\ DensityInputsEmpty => b.density.score = 0
            /\ IsNone(args0.sentiment) => b.sentiment.score = 0

ListDetailsEmptyOnEmptyInputs ==
    Called =>
        LET b == Val(locals)
        IN  /\ SpatialInputsEmpty => b.spatial.details = << >>
            /\ TemporalInputsEmpty => b.temporal.details = << >>

\* The imagery, density and sentiment functions return an explanation text,
\* never a list, and the text is not empty when the input is absent.
TextExplainsEmptyInputs ==
    Called =>
        LET b == Val(locals)
        IN  /\ IsNone(args0.sentinel) =>
                   /\ b.sentinel_scores.ndvi.explanation = "No Sentinel data available"
                   /\ b.sentinel_scores.nbr.explanation = "No Sentinel data available"
                   /\ b.sentinel_scores.burn.explanation = "No Sentinel data available"
            /\ DensityInputsEmpty => b.density.explanation = "No alerts detected in region"
            /\ IsNone(args0.sentiment) => b.sentiment.explanation = "No sentiment data available"

\* C4 (as stated): every scoring function returns a score in [0,1], and
\* score 0 with an empty detail on empty or absent inputs.
ScoresBoundedAndEmptyDetailOnEmpty ==
    /\ AllScoresInUnitRange
    /\ EmptyInputsScoreZero
    /\ ListDetailsEmptyOnEmptyInputs
    /\ Called =>
           LET b == Val(locals)
           IN  /\ IsNone(args0.sentinel) =>
                      /\ b.sentinel_scores.ndvi.explanation = ""
                      /\ b.sentinel_scores.nbr.explanation = ""
                      /\ b.sentinel_scores.burn.explanation = ""
               /\ DensityInputsEmpty => b.density.explanation = ""
               /\ IsNone(args0.sentiment) => b.sentiment.explanation = ""

\* C4 (amended): every scoring function returns a score in [0,1] and score
\* 0 on empty or absent inputs; the spatial and temporal functions then
\* return an empty detail list, the imagery, density and sentiment functions
\* a fixed explanation text.
ScoresBoundedAndZeroOnEmpty ==
    /\ AllScoresInUnitRange
    /\ EmptyInputsScoreZero
    /\ ListDetailsEmptyOnEmptyInputs
    /\ TextExplainsEmptyInputs

\* A call with every input empty or absent, and a call where every score is 1.0.
AllInputsEmptyScored ==
    /\ Called
    /\ SpatialInputsEmpty /\ TemporalInputsEmpty /\ DensityInputsEmpty
    /\ IsNone(args0.sentinel) /\ IsNone(args0.sentiment)
    /\ Val(locals).spatial.details = << >>
    /\ Val(locals).sentiment.explanation # ""

Perms(n) == { p \in [ 1..n -> 1..n ] : \A i, j \in 1..n : i # j => p[i] # p[j] }

\* C5: the returned evidence chains are in non-increasing order of
\* total_weight, and chains of equal total_weight keep the relative order of
\* their suspects in the input list.
ChainsRankedStably ==
    \A k \in 1..Len(rets) :
        LET out == rets[k].evidence_chains
            n == Len(args0.suspects)
        IN  /\ Len(out) = n
            /\ \A i \in 1..(n - 1) : out[i].total_weight >= out[i + 1].total_weight
            /\ \E p \in Perms(n) :
                   /\ \A i \in 1..n : out[i].suspect = args0.suspects[p[i]]
                   /\ \A i, j \in 1..n :
                          i < j /\ out[i].total_weight = out[j].total_weight => p[i] < p[j]

\* A ranking that moved the first suspect down and holds two different
\* suspects of equal weight.
ChainsTiedAndReordered ==
    /\ Called
    /\ LET out == rets[1].evidence_chains
       IN  /\ Len(out) = 3
           /\ out[1].suspect # args0.suspects[1]
           /\ out[1].total_weight > out[3].total_weight
           /\ \E i \in 1..2 : /\ out[i].total_weight = out[i + 1].total_weight
                               /\ out[i].suspect # out[i + 1].suspect

Finished == pc = "done"

ErrorSources(errors) == { errors[i].source : i \in 1..Len(errors) }

\* A collaborator failed: an exception escaped it or it returned an error result.
FailedCollaborator(c) ==
    task[c].status = "done" /\ (task[c].raised \/ ~IsNone(task[c].error))

DossierSignal(d, c) ==
    CASE c = "hansen_gfc" -> d.hansen
      [] c = "firms" -> d.firms
      [] c = "gfw_glad" -> d.gfw_glad
      [] c = "gfw_radd" -> d.gfw_radd
      [] c = "sentinel_hub" -> d.sentinel
      [] c = "overpass" -> d.nearby_infra

\* C1: whichever of the six Phase-1 collaborators fail, by raising or by
\* returning an error result, the run ends with a Dossier in which the signal
\* of each failed collaborator is absent and a SourceError names it, and the
\* signal of each collaborator that did not fail is the one it returned.
FailedCollaboratorsReported ==
    Finished =>
        /\ ~IsNone(dossier)
        /\ \A c \in Phase1Set :
              IF FailedCollaborator(c)
              THEN /\ DossierSignal(Val(dossier), c) = << >>
                   /\ c \in ErrorSources(Val(dossier).source_errors)
              ELSE task[c].skipped \/ DossierSignal(Val(dossier), c) = task[c].data

\* C2: Phase 3 runs only when every Phase-1 coroutine, every enrichment
\* lookup and every sentiment sub-fetch is done.
Phase3AfterEveryTask ==
    pc \in { "phase3", "done" } =>
        /\ \A c \in Phase1Set \cup SentimentSet : task[c].status = "done"
        /\ \A i \in 1..Len(enrich) : enrich[i].status = "done"

\* Phase 3 about to run after a Phase-1 failure, two lookups and a failed sub-fetch.
Phase3Reached ==
    /\ pc = "phase3"
    /\ Len(enrich) = 2
    /\ \E c \in Phase1Set : task[c].raised
    /\ \E c \in SentimentSet : FailedCollaborator(c)
    /\ rets = << >>

OutsideBand(bbox) == bbox.max_lat < -3000 \/ bbox.min_lat > 3000

Count(seq, Test(_)) == Cardinality({ i \in 1..Len(seq) : Test(seq[i]) })

\* C7: GLAD and RADD are skipped exactly when the latitude interval of the AOI
\* lies entirely outside [-30, 30]; a skipped dataset sends no request, takes
\* no token, gives no alerts, one CoverageNote "skipped" and no SourceError.
SkippedExactlyOutsideBand ==
    \A c \in { "gfw_glad", "gfw_radd" } :
        task[c].status = "done" =>
            /\ task[c].skipped <=> OutsideBand(Val(aoi))
            /\ task[c].skipped =>
                  /\ ext_calls[c] = 0
                  /\ tokens_taken[c] = 0
                  /\ pc \notin { "idle", "phase1" } =>
                        /\ IF c = "gfw_glad" THEN bundle.glad_alerts = << >>
                           ELSE bundle.radd_alerts = << >>
                        /\ LET IsNote(n) == n.dataset = c
                           IN  Count(coverage_notes, IsNote) = 1
                        /\ \A i \in 1..Len(coverage_notes) :
                              coverage_notes[i].dataset = c =>
                                  coverage_notes[i].status = "skipped"
                        /\ c \notin ErrorSources(source_errors)
                  /\ Finished =>
                        /\ DossierSignal(Val(dossier), c) = << >>
                        /\ Val(dossier).coverage_notes = coverage_notes
                        /\ c \notin ErrorSources(Val(dossier).source_errors)

\* A finished run on an AOI just north of the band, both datasets skipped.
SkippedNorthOfBand ==
    /\ Finished
    /\ Val(aoi).min_lat = 3001
    /\ task["gfw_glad"].skipped /\ task["gfw_radd"].skipped
    /\ Len(Val(dossier).coverage_notes) = 2

ConfigurationMessages ==
    { "GFW_API_KEY not configured", "Google CSE not configured", "Reddit API not configured",
      "Reddit credentials not configured" }
TransientMessages ==
    { "connection failed", "All Overpass endpoints failed: connection failed" }

\* C8: a recorded SourceError is retryable when the failure is transient and
\* not retryable when it is a configuration failure.
RetryableMatchesCause ==
    \A i \in 1..Len(source_errors) :
        /\ source_errors[i].message \in TransientMessages => source_errors[i].retryable
        /\ source_errors[i].message \in ConfigurationMessages => ~source_errors[i].retryable

\* C9: a registry lookup that failed during enrichment has an entry in the
\* sourceErrors of the Dossier.
FailedLookupsReported ==
    Finished =>
        /\ ~IsNone(dossier)
        /\ (\E i \in 1..Len(enrich) : ~IsNone(enrich[i].result.error))
               => "gleif" \in ErrorSources(Val(dossier).source_errors)

NoRegion == ~TruthyStr(request.region)
NoBBox == ~TruthyList(request.bbox)
UnknownRegion ==
    TruthyStr(request.region) /\ RegionLower(Val(request.region)) \notin DOMAIN GLOBAL_REGIONS
MalformedBBox == TruthyList(request.bbox) /\ parse_bbox_string(Val(request.bbox)).raised
InvalidBBox ==
    /\ TruthyList(request.bbox)
    /\ ~parse_bbox_string(Val(request.bbox)).raised
    /\ ~validate_bbox(Val(parse_bbox_string(Val(request.bbox)).value)).valid

RejectedBeforeOrchestration ==
    /\ pc = "rejected"
    /\ Val(response).status = 400
    /\ \A c \in DOMAIN task : task[c].status = "idle"
    /\ \A m \in Meters : tokens_taken[m] = 0
    /\ IsNone(dossier)

\* C10 (as stated): a request with neither region nor bbox, with an unknown
\* region, with a malformed bbox or with a bbox that fails validation is
\* answered 400 with no Phase-1 task started and no token taken.
BadRequestsRejected ==
    pc # "idle" /\ ((NoRegion /\ NoBBox) \/ UnknownRegion \/ MalformedBBox \/ InvalidBBox)
        => RejectedBeforeOrchestration

\* C10 (amended): a request with neither region nor bbox, with an unknown
\* region, or with no region and a bbox that is malformed or fails
\* validation is answered 400 with no Phase-1 task started and no token
\* taken; the bbox of a request that names a known region is not looked at.
BadRequestsWithoutRegionRejected ==
    /\ pc # "idle" /\ ((NoRegion /\ NoBBox) \/ UnknownRegion
                       \/ (NoRegion /\ (MalformedBBox \/ InvalidBBox)))
          => RejectedBeforeOrchestration
    /\ pc # "idle" /\ ~NoRegion /\ ~UnknownRegion => pc # "rejected"

\* A request without region rejected for the area of its bbox.
OversizedBBoxRejected ==
    /\ pc = "rejected"
    /\ NoRegion /\ InvalidBBox
    /\ Val(response).detail = "BBox area too large"

\* C11: every AOI that reaches orchestration, parsed from a bbox string or
\* resolved from a named region, has min_lon <= max_lon, min_lat <= max_lat,
\* longitudes in [-180,180], latitudes in [-90,90] and an area within the
\* bounds of validate_bbox (0.0001 to 1000 square degrees).
AoiSatisfiesBBoxInvariants ==
    ~IsNone(aoi) =>
        LET b == Val(aoi)
            area == (b.max_lon - b.min_lon) * (b.max_lat - b.min_lat)
        IN  /\ b.min_lon <= b.max_lon /\ b.min_lat <= b.max_lat
            /\ -18000 <= b.min_lon /\ b.max_lon <= 18000
            /\ -9000 <= b.min_lat /\ b.max_lat <= 9000
            /\ 1 <= area /\ area <= MaxAreaUnits
            /\ validate_bbox(b).valid

\* C12: in every run that reaches orchestration the time range handed to the
\* collaborators and to correlate_events has start <= end, whichever of
\* start_date and end_date the request supplies.
TimeframeOrdered ==
    ~IsNone(timeframe) => Val(timeframe)[1] <= Val(timeframe)[2]

(***************************************************************************)
(* Properties of the token buckets                                         *)
(***************************************************************************)
\* The units granted by the acquire calls i..j of one bucket's history.
RECURSIVE Granted(_, _, _)
Granted(g, i, j) ==
    IF i > j THEN 0 ELSE g[i].tokens * TokenUnit + Granted(g, i + 1, j)

\* C13: for every bucket of rate r and size B, after any sequence of
\* acquire(n) calls (n >= 1) and clock advances the token level lies in
\* [0, B]; every acquire that returned did so in a pass that found at least n
\* tokens and left exactly n fewer; and the tokens granted by any run of
\* consecutive grants are at most B plus the refill accrued between the first
\* and the last of them.
BucketLevelAndGrantsBounded ==
    \A s \in DOMAIN rate_limiters :
        LET limiter == rate_limiters[s]
            size == limiter.bucket_size * TokenUnit
            g == grants[s]
        IN  /\ 0 <= limiter.tokens /\ limiter.tokens <= size
            /\ \A i \in 1..Len(g) :
                  /\ g[i].available >= g[i].tokens * TokenUnit
                  /\ g[i].available <= size
                  /\ g[i].left = g[i].available - g[i].tokens * TokenUnit
            /\ \A i \in 1..Len(g) : \A j \in i..Len(g) :
                  Granted(g, i, j) <=
                      size + (g[j].time - g[i].time) * RefillPerTick(limiter.tokens_per_minute)

\* A bucket was drained by one grant and a later acquire, after sleeping for
\* the refill, was granted from a level below the bucket size.
GrantedAfterRefill ==
    \E s \in DOMAIN rate_limiters :
        \E i \in 1..Len(grants[s]) : \E j \in 1..Len(grants[s]) :
            /\ i < j
            /\ grants[s][i].left = 0
            /\ grants[s][j].time > grants[s][i].time
            /\ grants[s][j].available < rate_limiters[s].bucket_size * TokenUnit

\* C14: under every interleaving of the tasks the level of a bucket is never
\* negative, the task inside the loop of acquire is the one holder of the
\* bucket's lock, the tokens granted from a bucket never exceed its size plus
\* its refill (no token is granted twice), and a task queued for a lock waits
\* for a task of its own service only.
CallersSerializedPerBucket ==
    /\ \A s \in DOMAIN rate_limiters :
          LET limiter == rate_limiters[s]
          IN  /\ limiter.tokens >= 0
              /\ limiter.tokens + Granted(grants[s], 1, Len(grants[s])) <=
                    limiter.bucket_size * TokenUnit
                        + limiter.last_update * RefillPerTick(limiter.tokens_per_minute)
    /\ \A c \in DOMAIN callers :
          LET h == locks[LockOf(callers[c].service)].holder
          IN  /\ callers[c].pc = "sleeping" => h = Some(c)
              /\ callers[c].pc = "waiting" =>
                    /\ ~IsNone(h)
                    /\ callers[Val(h)].service = callers[c].service

\* One task sleeps in acquire for a gfw token with another queued behind it,
\* and meanwhile a third was granted an overpass token.
OtherServiceGrantedMeanwhile ==
    /\ \E c \in DOMAIN callers : callers[c].pc = "sleeping" /\ callers[c].service = "gfw"
    /\ \E c \in DOMAIN callers : callers[c].pc = "waiting" /\ callers[c].service = "gfw"
    /\ \E i \in 1..Len(grants["overpass"]) :
          grants["overpass"][i].time > rate_limiters["gfw"].last_update

(***************************************************************************)
(* Properties of the company enrichment                                    *)
(***************************************************************************)
\* C15: during company enrichment at most 3 lookups are in flight at any
\* moment, at most 10 names are looked up in a run, every name looked up is
\* a name, operator tag or company tag of a node of the infrastructure, no
\* name is looked up twice and the registry receives at most one request for
\* each lookup begun.
EnrichmentBounded ==
    /\ Cardinality({ i \in 1..Len(enrich) : enrich[i].status = "running" }) <= 3
    /\ Len(enrich) <= 10
    /\ \A i \in 1..Len(enrich) :
          /\ enrich[i].name \in CompanyNames(bundle.infrastructure)
          /\ \A j \in 1..Len(enrich) : i # j => enrich[i].name # enrich[j].name
    /\ ext_calls["gleif"] <= Cardinality({ i \in 1..Len(enrich) : enrich[i].status = "done" })

\* Eleven names were found, ten lookups were created, three are in flight
\* and others wait for the semaphore.
ThreeLookupsInFlightOfTen ==
    /\ Cardinality(CompanyNames(bundle.infrastructure)) = 11
    /\ Len(enrich) = 10
    /\ Cardinality({ i \in 1..Len(enrich) : enrich[i].status = "running" }) = 3
    /\ \E i \in 1..Len(enrich) : enrich[i].status = "queued"
    /\ \E i \in 1..Len(enrich) : enrich[i].status = "done"

(***************************************************************************)
(* Properties of the evidence chains                                       *)
(***************************************************************************)
\* The nodes whose name, operator tag or company tag is the suspect's name.
OwnNodes(suspect) ==
    SelectSeq(args0.infrastructure,
              LAMBDA n : Some(suspect.name) \in { n.name, n.operator, n.company })

\* The category scores of one suspect, by evidence type: the spatial score
\* over the suspect's own nodes, or half the AOI-wide one without such nodes.
ExpectedScores(suspect) ==
    LET b == Val(locals)
        own == OwnNodes(suspect)
        damage == (args0.glad_alerts \o args0.radd_alerts) \o args0.fires
    IN  [ spatial_proximity |->
              IF own # << >>
              THEN calculate_spatial_proximity_score(own, damage, MAX_PROXIMITY_DISTANCE_M).score
              ELSE (b.spatial.score * 5) \div 10,
          temporal_correlation |-> b.temporal.score,
          sentinel_ndvi |-> b.sentinel_scores.ndvi.score,
          sentinel_nbr |-> b.sentinel_scores.nbr.score,
          sentinel_burn |-> b.sentinel_scores.burn.score,
          alert_density |-> b.density.score,
          sentiment_negative |-> b.sentiment.score ]

LinksOf(chain, type) == SelectSeq(chain.links, LAMBDA l : l.evidence_type = type)

\* One link for every category of positive score and no other link; the
\* weight of a link is the score times the weight of its category.
LinksMatchScores(chain) ==
    LET score == ExpectedScores(chain.suspect)
    IN  /\ \A c \in DOMAIN WEIGHTS :
              LET ls == LinksOf(chain, c)
              IN  /\ Len(ls) = IF score[c] > 0 THEN 1 ELSE 0
                  /\ \A j \in 1..Len(ls) :
                        /\ ls[j].weight = score[c] * WEIGHTS[c]
                        /\ 0 < ls[j].weight /\ ls[j].weight <= SCALE * WEIGHTS[c]
        /\ Len(chain.links) = Cardinality({ c \in DOMAIN WEIGHTS : score[c] > 0 })

SpatialScorePerSuspect ==
    \A k \in 1..Len(rets) : \A i \in 1..Len(rets[k].evidence_chains) :
        LET chain == rets[k].evidence_chains[i]
            b == Val(locals)
            own == OwnNodes(chain.suspect)
            damage == (args0.glad_alerts \o args0.radd_alerts) \o args0.fires
            spatial == IF own # << >>
                       THEN calculate_spatial_proximity_score(own, damage, 5000).score
                       ELSE (b.spatial.score * 5) \div 10
            links == LinksOf(chain, "spatial_proximity")
            score == ExpectedScores(chain.suspect)
        IN  /\ spatial > 0 => Len(links) = 1 /\ links[1].weight = spatial * 25
            /\ spatial = 0 => links = << >>
            /\ \A c \in DOMAIN WEIGHTS \ { "spatial_proximity" } :
                  LET ls == LinksOf(chain, c)
                  IN  /\ ls = LinksOf(rets[k].evidence_chains[1], c)
                      /\ \A j \in 1..Len(ls) : ls[j].weight = score[c] * WEIGHTS[c]

\* A run with a suspect scored over its own nodes and a suspect given half
\* of a positive AOI-wide score, the two spatial scores being different.
OwnAndHalvedSpatialScores ==
    /\ Called
    /\ \E i, j \in 1..Len(rets[1].evidence_chains) :
          LET ci == rets[1].evidence_chains[i]
              cj == rets[1].evidence_chains[j]
          IN  /\ OwnNodes(ci.suspect) # << >>
              /\ OwnNodes(ci.suspect) # args0.infrastructure
              /\ OwnNodes(cj.suspect) = << >>
              /\ Val(locals).spatial.score > 0
              /\ LinksOf(ci, "spatial_proximity") # LinksOf(cj, "spatial_proximity")
              /\ LinksOf(cj, "spatial_proximity") # << >>
              /\ LinksOf(ci, "temporal_correlation") # << >>

\* C18: the summary of a chain reports limited evidence (no phrase) exactly
\* when none of the suspect's seven category scores exceeds 0.5, and it
\* holds the phrase of every category whose score exceeds 0.5.
LimitedEvidenceIffNoStrongScore ==
    \A k \in 1..Len(rets) : \A i \in 1..Len(rets[k].evidence_chains) :
        LET chain == rets[k].evidence_chains[i]
            score == ExpectedScores(chain.suspect)
            parts == { chain.summary.parts[j] : j \in 1..Len(chain.summary.parts) }
        IN  /\ chain.summary.parts = << >> <=> \A c \in DOMAIN WEIGHTS : 2 * score[c] <= SCALE
            /\ 2 * score.spatial_proximity > SCALE =>
                  "strong spatial correlation with damage sites" \in parts
            /\ 2 * score.temporal_correlation > SCALE =>
                  "temporal pattern of fires preceding deforestation" \in parts
            /\ 2 * score.sentinel_ndvi > SCALE =>
                  "satellite imagery confirms vegetation loss" \in parts
            /\ 2 * score.sentiment_negative > SCALE => "negative media coverage" \in parts

(***************************************************************************)
(* Properties of the confidence score                                      *)
(***************************************************************************)
\* The weighted category scores of lines 558-564, in units of 1/SCALE point.
ScoreContributions(b) ==
    b.spatial.score * 15 + b.temporal.score * 10 + b.density.score * 10
    + (b.sentinel_scores.ndvi.score + b.sentinel_scores.nbr.score
       + b.sentinel_scores.burn.score) * 5

\* The confidence returned for a sum of presence bonuses (in points).
ConfidenceFor(bonus, b) ==
    RoundHalfEven(Min(100 * SCALE, bonus * SCALE + ScoreContributions(b)), MILLI)

\* C19: the confidence holds the imagery bonus of 15 exactly when the imagery
\* signal has an NDVI or an NBR value, a value of exactly 0 included; the
\* alert bonus of 15 exactly when there are GLAD or RADD alerts, the fire
\* bonus of 10 exactly when there are fires, the forest-loss bonus of 10
\* exactly when the loss is positive and the infrastructure bonus of 10
\* exactly when there is infrastructure.
BonusesFollowPresence ==
    \A k \in 1..Len(rets) :
        LET a == args0
            bonus == (IF a.glad_alerts # << >> \/ a.radd_alerts # << >> THEN 15 ELSE 0)
                     + (IF a.fires # << >> THEN 10 ELSE 0)
                     + (IF ~IsNone(a.sentinel)
                           /\ (~IsNone(Val(a.sentinel).ndvi) \/ ~IsNone(Val(a.sentinel).nbr))
                        THEN 15 ELSE 0)
                     + (IF ~IsNone(a.hansen) /\ Val(a.hansen).total_loss_ha > 0 THEN 10 ELSE 0)
                     + (IF a.infrastructure # << >> THEN 10 ELSE 0)
                     + (IF ~IsNone(a.sentiment) THEN 5 ELSE 0)
        IN  rets[k].confidence_score = ConfidenceFor(bonus, Val(locals))

\* C20: in a /dossier run whose three sentiment sources all failed or
\* returned no sample, the sentiment signal counts as absent: the confidence
\* of the dossier holds no sentiment bonus.
NoSentimentBonusWithoutSamples ==
    (pc = "done" /\ rets # << >>
     /\ \A c \in SentimentSet : ~Counted(extract_result(task[c], c).data))
        => rets[1].confidence_score =
               ConfidenceFor(PresenceBonus([ args0 EXCEPT !.sentiment = None ]), Val(locals))

(***************************************************************************)
(* Properties of the combined sentiment                                    *)
(***************************************************************************)
\* The positions, among the three arguments google, gdelt and reddit, of the
\* sources that are there and analysed at least one article.
PresentSources(a) == { i \in 1..3 : a[i] # None /\ a[i][1].count > 0 }

\* The weights 0.5, 0.3 and 0.2 of the three positions, in tenths.
SourceWeight == << 5, 3, 2 >>

WeightOf(a) ==
    LET w(i) == IF i \in PresentSources(a) THEN SourceWeight[i] ELSE 0
    IN  w(1) + w(2) + w(3)

WeightedPolarity(a) ==
    LET p(i) == IF i \in PresentSources(a) THEN SourceWeight[i] * a[i][1].score ELSE 0
    IN  p(1) + p(2) + p(3)

\* 30 x (0.6 x min(1, totalCount / 50) + 0.4 x presentSources / 3), in 1/MILLI
ThirtyConfidences(a) ==
    LET n(i) == IF i \in PresentSources(a) THEN a[i][1].count ELSE 0
    IN  18 * Min(MILLI, 20 * (n(1) + n(2) + n(3))) + 4 * MILLI * Cardinality(PresentSources(a))

CombinedInRange(out) ==
    /\ out.final_score >= -MILLI /\ out.final_score <= MILLI
    /\ out.confidence >= 0 /\ out.confidence <= MILLI

\* C21 as stated: the final polarity is exactly the weighted mean of the
\* polarities of the sources with count > 0 and the confidence is exactly
\* 0.6 x min(1, totalCount/50) + 0.4 x presentSources/3; a single present
\* source gives its own polarity, no present source gives 0 and 0, and both
\* values stay in their ranges.
CombinedSentimentExact ==
    call.fn = "compute_combined_sentiment" =>
        \A k \in 1..Len(returned) :
            LET a == call.inputs[k]
                out == returned[k]
            IN  /\ PresentSources(a) = {} => out.final_score = 0 /\ out.confidence = 0
                /\ PresentSources(a) # {} => out.final_score * WeightOf(a) = WeightedPolarity(a)
                /\ \A i \in 1..3 : PresentSources(a) = { i } => out.final_score = a[i][1].score
                /\ out.confidence * 30 = ThirtyConfidences(a)
                /\ CombinedInRange(out)

\* C21 amended: the final polarity and the confidence are the stated values
\* rounded to three decimals, that is, each is a whole number of thousandths
\* within half a thousandth of the stated value.
CombinedSentimentRounded ==
    call.fn = "compute_combined_sentiment" =>
        \A k \in 1..Len(returned) :
            LET a == call.inputs[k]
                out == returned[k]
            IN  /\ PresentSources(a) = {} => out.final_score = 0 /\ out.confidence = 0
                /\ PresentSources(a) # {} =>
                      2 * Abs(out.final_score * WeightOf(a) - WeightedPolarity(a)) <= WeightOf(a)
                /\ \A i \in 1..3 : PresentSources(a) = { i } => out.final_score = a[i][1].score
                /\ 2 * Abs(out.confidence * 30 - ThirtyConfidences(a)) <= 30
                /\ CombinedInRange(out)

\* A call that combined two counted sources and left out a third one that
\* found nothing, with a mean and a confidence that had to be rounded.
TwoSourcesCountedOneEmpty ==
    /\ call.fn = "compute_combined_sentiment"
    /\ Len(returned) = 1
    /\ PresentSources(call.inputs[1]) = { 1, 3 }
    /\ call.inputs[1][2] # None
    /\ returned[1].final_score * WeightOf(call.inputs[1]) # WeightedPolarity(call.inputs[1])
    /\ returned[1].confidence * 30 # ThirtyConfidences(call.inputs[1])

(***************************************************************************)
(* Properties of the scores                                                *)
(***************************************************************************)
\* The (node, alert) pairs no further apart than max_distance metres, by
\* position in the two lists.
ClosePairs(infrastructure, alerts, max_distance) ==
    { p \in (1..Len(infrastructure)) \X (1..Len(alerts)) :
        Abs(infrastructure[p[1]].latitude - alerts[p[2]].latitude) * 111195
            <= max_distance * 100000 }

\* C22: the spatial score counts exactly the (node, alert) pairs within the
\* maximal distance, returns one detail entry for each of them, and maps
\* the count c to 0 for c = 0, 0.15 c for c in 1..4, 0.6 + 0.05 (c - 5) for
\* c in 5..9 and min(1, 0.85 + 0.01 (c - 10)) from 10 on.
SpatialScoreCountsClosePairs ==
    call.fn = "calculate_spatial_proximity_score" =>
        \A k \in 1..Len(returned) :
            LET a == call.inputs[k]
                c == Cardinality(ClosePairs(a[1], a[2], a[3]))
                spatial == returned[k]
            IN  /\ Len(spatial.details) = c
                /\ \A i \in 1..c : spatial.details[i].distance_m <= a[3] * 10
                /\ c = 0 => spatial.score = 0
                /\ c \in 1..4 => spatial.score = 1500 * c
                /\ c \in 5..9 => spatial.score = 6000 + 500 * (c - 5)
                /\ c >= 10 => spatial.score = Min(SCALE, 8500 + 100 * (c - 10))

\* A call that found between five and nine close pairs next to pairs that
\* are too far apart to count.
FiveClosePairsAndOthersApart ==
    /\ call.fn = "calculate_spatial_proximity_score"
    /\ Len(returned) = 1
    /\ Len(returned[1].details) \in 5..9
    /\ Len(returned[1].details) < Len(call.inputs[1][1]) * Len(call.inputs[1][2])

\* The fire x alert pairs whose days_apart is within the window, by position.
MatchedPairs(fires, alerts, window_days) ==
    { p \in (1..Len(fires)) \X (1..Len(alerts)) :
        Abs((fires[p[1]].t - alerts[p[2]].t) \div 24) <= window_days }

RECURSIVE SumOver(_, _)
SumOver(f, S) ==
    IF S = {} THEN 0 ELSE LET x == CHOOSE y \in S : TRUE IN f[x] + SumOver(f, S \ { x })

\* Details and match count of the temporal score: one entry per matched
\* pair, with the days_apart of the pair; none without a match.
TemporalMatches(a, out) ==
    /\ Len(out.details) = Cardinality(MatchedPairs(a[1], a[2], a[3]))
    /\ \A i \in 1..Len(out.details) :
          /\ out.details[i].days_apart
                = Abs((out.details[i].fire_date - out.details[i].alert_date) \div 24)
          /\ out.details[i].days_apart <= a[3]
    /\ out.details = << >> => out.score = 0

\* C23 as stated: exactly the pairs with daysApart <= window are matched,
\* each has the strength 1 - daysApart/window, the score is
\* min(1, average(strength) + min(0.3, 0.05 x matchCount)), and without a
\* match the score is 0 and the detail list is empty.
TemporalScoreOfExactStrengths ==
    call.fn = "calculate_temporal_correlation_score" =>
        \A k \in 1..Len(returned) :
            LET a == call.inputs[k]
                out == returned[k]
                n == Len(out.details)
                left == [ i \in 1..n |-> a[3] - out.details[i].days_apart ]
            IN  /\ TemporalMatches(a, out)
                /\ \A i \in 1..n :
                      out.details[i].correlation_strength * a[3] = 100 * left[i]
                /\ n > 0 =>
                      out.score = Min(SCALE, (SCALE * SumOver(left, 1..n)) \div (a[3] * n)
                                             + Min(3000, 500 * n))

\* C23 amended: the strength of a pair is 1 - daysApart/window rounded to
\* two decimals, and the score averages the rounded strengths.
TemporalScoreOfRoundedStrengths ==
    call.fn = "calculate_temporal_correlation_score" =>
        \A k \in 1..Len(returned) :
            LET a == call.inputs[k]
                out == returned[k]
                n == Len(out.details)
                strength == [ i \in 1..n |-> out.details[i].correlation_strength ]
            IN  /\ TemporalMatches(a, out)
                /\ \A i \in 1..n :
                      2 * Abs(strength[i] * a[3] - 100 * (a[3] - out.details[i].days_apart))
                          <= a[3]
                /\ n > 0 =>
                      out.score = Min(SCALE, (100 * SumOver(strength, 1..n)) \div n
                                             + Min(3000, 500 * n))

\* A call that matched some pairs and not others, with a strength that is
\* not a whole number of hundredths and a score below the cap.
MatchedPairsWithRoundedStrength ==
    /\ call.fn = "calculate_temporal_correlation_score"
    /\ Len(returned) = 1
    /\ Len(returned[1].details) \in 1..(Len(call.inputs[1][1]) * Len(call.inputs[1][2]) - 1)
    /\ returned[1].score < SCALE
    /\ \E i \in 1..Len(returned[1].details) :
          returned[1].details[i].correlation_strength * call.inputs[1][3]
              # 100 * (call.inputs[1][3] - returned[1].details[i].days_apart)

\* C24: the burn-index sub-score is monotone non-decreasing in the burn
\* index: of two calls, the one with the higher burn index never gets the
\* lower burn score.
BurnScoreMonotone ==
    (call.fn = "calculate_sentinel_scores" /\ Len(returned) = 2) =>
        (call.inputs[1][1][1].burn_index[1] <= call.inputs[2][1][1].burn_index[1]
            => returned[1].burn.score <= returned[2].burn.score)

\* C26: the alert density score is monotone non-decreasing in the number
\* of alerts of one AOI of positive area: of two calls on the same AOI, the
\* one with more alerts never gets the lower score.
DensityScoreMonotone ==
    (call.fn = "calculate_alert_density_score" /\ Len(returned) = 2) =>
        LET total(k) == Len(call.inputs[k][1]) + Len(call.inputs[k][2]) + Len(call.inputs[k][3])
        IN  (total(1) <= total(2) /\ AreaCentiSqKm(call.inputs[1][4]) > 0)
                => returned[1].score <= returned[2].score

\* C27: match decision, days_apart and strength of a fire/alert pair depend
\* only on the absolute time difference: a fire some duration after an alert
\* and a fire the same duration before it get the same match decision, the
\* same days_apart and the same strength, whole number of days or not.
TemporalMatchSymmetric ==
    (call.fn = "calculate_temporal_correlation_score" /\ Len(returned) = 2) =>
        LET after == returned[1].details
            before == returned[2].details
        IN  /\ Len(after) = Len(before)
            /\ \A i \in 1..Len(after) :
                  /\ after[i].days_apart = before[i].days_apart
                  /\ after[i].correlation_strength = before[i].correlation_strength

(***************************************************************************)
(* Properties of retry_with_backoff                                        *)
(***************************************************************************)
\* The calls of func made so far all failed with a retryable exception,
\* the last one possibly excepted.
EarlierCallsRetried(script) ==
    \A j \in 1..(retry.calls - 1) : script[j] \in { "TimeoutException", "NetworkError" }

\* C25: func is called at most max_retries times; the result of the first
\* successful call is returned without a further call; between two
\* consecutive attempts, and not after the last one, the function sleeps
\* delays[min(attempt, len(delays) - 1)]; once max_retries attempts have
\* failed the last retryable exception is raised; an exception that is not
\* retryable escapes at its first occurrence, without a retry.
RetryContract ==
    call.fn = "retry_with_backoff" =>
        LET script == call.inputs[1][1]
            max_retries == call.inputs[1][2]
            delays == call.inputs[1][3]
            over == retry.pc \in { "returned", "raised" }
        IN  /\ retry.calls <= max_retries
            /\ EarlierCallsRetried(script)
            /\ Len(retry.slept) = IF over /\ retry.calls > 0 THEN retry.calls - 1
                                  ELSE retry.calls
            /\ \A i \in 1..Len(retry.slept) :
                  retry.slept[i] = delays[(IF i - 1 < Len(delays) - 1 THEN i - 1
                                           ELSE Len(delays) - 1) + 1]
            /\ retry.pc = "returned" <=> returned # << >>
            /\ retry.pc = "returned" =>
                  /\ script[retry.calls] = "ok"
                  /\ returned = << [ result_of_call |-> retry.calls ] >>
            /\ (retry.pc = "raised" /\ max_retries >= 1) =>
                  /\ retry.raised = Some([ type |-> script[retry.calls], call |-> retry.calls ])
                  /\ \/ script[retry.calls] = "HTTPStatusError"
                     \/ /\ script[retry.calls] \in { "TimeoutException", "NetworkError" }
                        /\ retry.calls = max_retries
            /\ (~over /\ retry.calls > 0) =>
                  /\ script[retry.calls] \in { "TimeoutException", "NetworkError" }
                  /\ retry.calls < max_retries

\* Three attempts failed with different retryable exceptions, two sleeps of
\* different lengths lie between them, and the last exception was raised.
ThreeAttemptsTwoSleepsThenRaised ==
    /\ call.fn = "retry_with_backoff"
    /\ retry.pc = "raised"
    /\ retry.calls = 3
    /\ retry.slept = << 1, 2 >>
    /\ call.inputs[1][1][2] # call.inputs[1][1][3]
    /\ retry.raised = Some([ type |-> "NetworkError", call |-> 3 ])

(***************************************************************************)
(* The confidence score and the suspects                                   *)
(***************************************************************************)
\* C28: the confidence score of a call does not depend on the suspects:
\* the same AOI and signals with no suspect, or with one suspect that owns
\* no infrastructure, give the confidence score the call returned.
ConfidenceIgnoresSuspects ==
    \A k \in 1..Len(rets) :
        \A others \in { << >>, << Company("Z", None) >> } :
            rets[k].confidence_score
                = correlate_events([ args0 EXCEPT !.suspects = others ]).confidence_score

\* A call with a suspect that owns infrastructure and a suspect that owns
\* none, whose chains differ in weight, and a confidence score between the
\* bounds.
SuspectsOfBothKindsScored ==
    /\ Called
    /\ \E i, j \in 1..Len(rets[1].evidence_chains) :
          /\ OwnNodes(rets[1].evidence_chains[i].suspect) # << >>
          /\ OwnNodes(rets[1].evidence_chains[j].suspect) = << >>
          /\ rets[1].evidence_chains[i].total_weight # rets[1].evidence_chains[j].total_weight
    /\ rets[1].confidence_score > 0
    /\ rets[1].confidence_score < 100 * 10

(***************************************************************************)
(* Termination of acquire                                                  *)
(***************************************************************************)
\* The tasks inside acquire on the bucket of a service.
PendingOn(s) == { c \in DOMAIN callers : callers[c].service = s /\ callers[c].pc # "idle" }

\* The ticks after which a bucket has refilled the tokens of one call.
ServeTicks(c) ==
    LET rate == (rate_limiters[callers[c].service].tokens_per_minute * TokenUnit) \div 120
    IN  (callers[c].tokens * TokenUnit + rate - 1) \div rate

Fits(c) ==
    callers[c].tokens <= rate_limiters[callers[c].service].bucket_size

\* The clock of the model runs long enough to refill, one call after the
\* other, what the calls pending on the bucket of task c ask for, those
\* that the bucket can never serve left aside.
TimeLeftFor(c) ==
    clock + SumOver([ q \in DOMAIN callers |-> ServeTicks(q) ],
                    { q \in PendingOn(callers[c].service) : Fits(q) }) <= MaxClock

\* C29: every acquire(n) with n <= bucket_size returns once enough time has
\* passed, whatever the other callers of its bucket ask for, and no
\* acquire(n) with n > bucket_size ever returns.
AcquireReturnsIffFits ==
    /\ \A c \in { "t1", "t2", "t3" } :
          (callers[c].pc # "idle" /\ Fits(c) /\ TimeLeftFor(c)) ~> (callers[c].pc = "idle")
    /\ [](\A s \in DOMAIN grants : \A i \in 1..Len(grants[s]) :
             grants[s][i].tokens <= rate_limiters[s].bucket_size)

\* The same for the calls that share their bucket with no call that asks
\* for more than bucket_size.
AcquireReturnsAmongFitting ==
    \A c \in { "t1", "t2", "t3" } :
        (/\ callers[c].pc # "idle"
         /\ \A q \in PendingOn(callers[c].service) : Fits(q)
         /\ TimeLeftFor(c)) ~> (callers[c].pc = "idle")

(***************************************************************************)
(* One SourceError per failure                                             *)
(***************************************************************************)
\* C30: a failure of a collaborator or of a sentiment sub-source is recorded
\* once in the Dossier: no two of its SourceErrors name the same source,
\* so that no failure appears twice or with two different retryable flags.
OneSourceErrorPerFailure ==
    (Finished /\ ~IsNone(dossier)) =>
        LET errors == Val(dossier).source_errors
        IN  \A i, j \in 1..Len(errors) : errors[i].source = errors[j].source => i = j

====
